---- MODULE Spec2Model ----
(***************************************************************************)
(* RaphLoop: the RAPH-LOOP protocol state machine (RaphLoopProtocol), the  *)
(* VerificationManager it runs the check with and the IterationEngine that *)
(* produces and applies one fix per iteration; the MultiAgentOrchestrator  *)
(* with its problem classifier, the loop of SpecialistAgent.execute, and   *)
(* the execution memory of EnhancedIterationEngine, and the three steps of *)
(* SessionTraceProtocol.executeTrace.                                      *)
(*                                                                         *)
(* One run is one call of RaphLoopProtocol.execute on a freshly            *)
(* constructed protocol object, as executeRaphLoop performs it; RerunSpec  *)
(* calls execute again on the same object and OverlapSpec lets two calls   *)
(* of the orchestrator overlap.  Each component has a specification of its *)
(* own, in which the variables of the other components keep their initial  *)
(* values.                                                                 *)
(***************************************************************************)
EXTENDS Integers, Sequences, FiniteSets, TLC

(***************************************************************************)
(* Bounds of the model.                                                    *)
(***************************************************************************)
\* largest config.maxIterations a run is constructed with
MaxBudget == 3
\* largest exit status of the verification process
MaxExit == 2

(***************************************************************************)
(* Texts.  The text a verification process writes is drawn from a few      *)
(* representative strings; what the code does with a text depends only on  *)
(* whether it is empty and on which regular expressions match it.          *)
(***************************************************************************)
TxtModule    == "Cannot find module 'x'"
TxtNotFound  == "Module not found"
TxtAssert    == "AssertionError: Expected 'foo' but got 'bar'"
TxtRunning   == "Running verification..."
MsgFailed    == "Command failed: node verify.js"
MsgTimeout   == "spawnSync /bin/sh ETIMEDOUT"
MsgWrite     == "EACCES: permission denied"
UnknownError == "Unknown error"
Undefined    == "undefined"

StdoutTexts == {"", TxtRunning}
StderrTexts == {"", TxtModule, TxtNotFound, TxtAssert}

(***************************************************************************)
(* IterationEngine: error patterns, in the order of initializeErrorPatterns*)
(***************************************************************************)
errorPatterns ==
  << [re |-> "SyntaxError|Unexpected token|Unexpected identifier", category |-> "syntax"],
     [re |-> "Cannot find module|Module not found",                category |-> "dependency"],
     [re |-> "Property '..' does not exist on type|Object is possibly", category |-> "type"],
     [re |-> "is not defined|is not a function|has no method",     category |-> "logic"],
     [re |-> "AssertionError|Test failed|Expected .* to",          category |-> "test"],
     [re |-> "Cannot read property|Cannot read",                   category |-> "runtime"],
     [re |-> "TypeError",                                          category |-> "type"],
     [re |-> "ReferenceError",                                     category |-> "dependency"] >>

\* pattern.test(text): which of the eight regular expressions match which text;
\* the messages of execSync and the empty text match none
PatternTest(i, text) ==
  CASE text = TxtModule   -> i = 2
    [] text = TxtNotFound -> i = 2
    [] text = TxtAssert   -> i = 5
    [] OTHER              -> FALSE

\* analyzeError: the first pattern that matches, 0 for null
analyzeError(errorOutput) ==
  LET hits == {i \in 1..Len(errorPatterns) : PatternTest(i, errorOutput)}
  IN  IF hits = {} THEN 0 ELSE CHOOSE i \in hits : \A j \in hits : i <= j

\* errorOutput.match(/Cannot find module ['"]([^'"]+)['"]/i)
ModuleMatch(errorOutput) == errorOutput = TxtModule

\* findAffectedFiles: none of the texts holds an "at <file>.ts" frame
findAffectedFiles(errorOutput) == << >>

Suggestion(desc, files, conf, withPath) ==
  [description |-> desc, files |-> files, confidence |-> conf, hasFilePath |-> withPath]

\* generateFixSuggestions; confidence in hundredths
generateFixSuggestions(errorOutput) ==
  LET p   == analyzeError(errorOutput)
      cat == IF p = 0 THEN "none" ELSE errorPatterns[p].category
      fs  == findAffectedFiles(errorOutput)
  IN  CASE cat = "syntax"     -> << Suggestion("Fix syntax error", fs, 60, FALSE) >>
        [] cat = "dependency" -> IF ModuleMatch(errorOutput)
                                 THEN << Suggestion("Add import for x", fs, 80, FALSE),
                                         Suggestion("Install x package", <<"package.json">>, 70, FALSE) >>
                                 ELSE << >>
        [] cat = "type"       -> << Suggestion("Update type definitions", fs, 70, FALSE) >>
        [] cat = "logic"      -> << Suggestion("Fix logic error", fs, 50, FALSE) >>
        [] cat = "test"       -> << Suggestion("Update test expectations", fs, 60, FALSE),
                                    Suggestion("Fix implementation to match test expectations", fs, 70, FALSE) >>
        [] cat = "runtime"    -> << Suggestion("Fix runtime null/undefined access", fs, 60, FALSE) >>
        [] OTHER              -> << >>

\* suggestions.reduce((best, current) => current.confidence > best.confidence ? current : best)
RECURSIVE ReduceBest(_, _, _)
ReduceBest(suggestions, i, best) ==
  IF i > Len(suggestions) THEN best
  ELSE ReduceBest(suggestions, i + 1,
                  IF suggestions[i].confidence > best.confidence THEN suggestions[i] ELSE best)

\* applyFix: false only when applying a code change with a file path throws
applyFixOutcomes(fix) == IF fix.hasFilePath THEN {TRUE, FALSE} ELSE {TRUE}

\* the iteration number of the record counted from zero
executeIteration_ZeroBased(errorOutput, iteration, applied) ==
  LET suggestions == generateFixSuggestions(errorOutput)
  IN  IF Len(suggestions) = 0
      THEN [success |-> FALSE, iteration |-> iteration - 1, changes |-> << >>,
            modifiedFiles |-> << >>, error |-> "No fix suggestions generated"]
      ELSE LET best == ReduceBest(suggestions, 2, suggestions[1])
           IN  [success |-> applied, iteration |-> iteration - 1,
                changes |-> << best.description >>, modifiedFiles |-> best.files,
                error |-> IF applied THEN Undefined ELSE "Failed to apply fix"]

\* executeIteration, given what applyFix returned
executeIteration(errorOutput, iteration, applied) ==
  LET suggestions == generateFixSuggestions(errorOutput)
  IN  IF Len(suggestions) = 0
      THEN [success |-> FALSE, iteration |-> iteration, changes |-> << >>,
            modifiedFiles |-> << >>, error |-> "No fix suggestions generated"]
      ELSE LET best == ReduceBest(suggestions, 2, suggestions[1])
           IN  [success |-> applied, iteration |-> iteration,
                changes |-> << best.description >>, modifiedFiles |-> best.files,
                error |-> IF applied THEN Undefined ELSE "Failed to apply fix"]

(***************************************************************************)
(* VerificationManager                                                     *)
(***************************************************************************)
\* what the verification process can do: exit with a code, or be killed at
\* the timeout; either way with some captured stdout and stderr
ProcessOutcomes ==
  [kind : {"exit"}, code : 0..MaxExit, stdout : StdoutTexts, stderr : StderrTexts]
  \cup [kind : {"timeout"}, code : {0}, stdout : StdoutTexts, stderr : StderrTexts]

\* child_process.execSync: returns the output on exit code 0, throws otherwise.
\* status 0 stands for the falsy status (null) of a killed process.
execSync(proc) ==
  IF proc.kind = "exit" /\ proc.code = 0
  THEN [threw |-> FALSE, status |-> 0, stdout |-> proc.stdout, stderr |-> "", message |-> ""]
  ELSE [threw |-> TRUE,
        status |-> IF proc.kind = "timeout" THEN 0 ELSE proc.code,
        stdout |-> proc.stdout, stderr |-> proc.stderr,
        message |-> IF proc.kind = "timeout" THEN MsgTimeout ELSE MsgFailed]

\* JavaScript a || b on numbers and on strings
OrNum(a, b) == IF a # 0 THEN a ELSE b
OrStr(a, b) == IF a # "" THEN a ELSE b

\* the exit code taken from error.status without the fallback to 1
executeVerificationScript_StatusOnly(script, proc) ==
  LET r == execSync(proc)
  IN  IF ~r.threw
      THEN [script EXCEPT !.exitCode = 0, !.output = r.stdout, !.errorOutput = ""]
      ELSE [script EXCEPT !.exitCode = r.status,
                          !.output = OrStr(r.stdout, ""),
                          !.errorOutput = OrStr(r.stderr, OrStr(r.message, ""))]

\* executeVerificationScript: the fields it sets on the script
executeVerificationScript(script, proc) ==
  LET r == execSync(proc)
  IN  IF ~r.threw
      THEN [script EXCEPT !.exitCode = 0, !.output = r.stdout, !.errorOutput = ""]
      ELSE [script EXCEPT !.exitCode = OrNum(r.status, 1),
                          !.output = OrStr(r.stdout, ""),
                          !.errorOutput = OrStr(r.stderr, OrStr(r.message, ""))]

isVerificationPassed(script) == script.exitCode = 0

extractErrorInfo(script) ==
  IF isVerificationPassed(script) THEN ""
  ELSE OrStr(script.errorOutput, OrStr(script.output, UnknownError))

\* no verification process has run yet
NoProcess == [kind |-> "none", code |-> 0, stdout |-> "", stderr |-> ""]

\* the script object createVerificationScript returns; exitCode -1 is "not set"
NewScript == [created |-> TRUE, exitCode |-> -1, output |-> Undefined, errorOutput |-> Undefined]
NoScript  == [created |-> FALSE, exitCode |-> -1, output |-> Undefined, errorOutput |-> Undefined]

(***************************************************************************)
(* RaphLoopProtocol                                                        *)
(***************************************************************************)
\* the while condition off by one
LoopCondition_Inclusive(iteration, budget) == iteration <= budget

\* the while condition of executeLoopPhase
LoopCondition(iteration, budget) == iteration < budget

\* the break on success left out
AfterVerification_NoBreakOnPass(passed, iteration, budget) ==
  IF iteration >= budget THEN "exit" ELSE "fix"

\* the break on the last iteration left out
AfterVerification_NoBudgetBreak(passed, iteration, budget) ==
  IF passed THEN "exit" ELSE "fix"

\* where the while body goes after the verification run: the break on success,
\* the break on the last iteration, or on to the fix
AfterVerification(passed, iteration, budget) ==
  IF passed THEN "exit"
  ELSE IF iteration >= budget THEN "exit" ELSE "fix"

\* an applied fix counted as success of the run
LoopOutcome_FixCounts(passed, history) ==
  passed \/ (Len(history) > 0 /\ history[Len(history)].success)

\* state.succeeded as executeLoopPhase sets it when the loop is over
LoopOutcome(passed, history) == passed

VARIABLES
  maxIterations,       \* config.maxIterations
  phase,               \* state.phase
  currentIteration,    \* state.currentIteration
  iterationHistory,    \* state.iterationHistory
  completed,           \* state.completed
  succeeded,           \* state.succeeded
  failureError,        \* state.failureError
  verificationScript,  \* state.verificationScript
  verificationPassed,  \* the local of executeLoopPhase
  pc,                  \* where execute stands
  verifyRuns,          \* how each verification process run so far ended, in order
  lastProc,            \* the latest verification process, with what it wrote
  fixCalls             \* the iteration numbers executeIteration was called with, in order

VARIABLE
  budgetAtStart        \* config.maxIterations as it was when execute was called

\* MultiAgentOrchestrator
VARIABLES
  agents,              \* the keys of this.agents: the specialties with a registered agent
  capabilityConfidence,  \* capability.confidence of the agent of each key, in hundredths
  classification,      \* the local classification of execute
  idx,                 \* the position of the for loop in classification.suggestedAgents
  result,              \* the local result of execute
  agentsUsed,          \* the local agentsUsed of execute
  totalIterations,     \* the local totalIterations of execute
  executionPath,       \* this.executionPath
  opc,                 \* where MultiAgentOrchestrator.execute stands
  calls,               \* the calls of agent.execute made so far and how each ended
  ret                  \* what MultiAgentOrchestrator.execute returned

ovars == << agents, capabilityConfidence, classification, idx, result, agentsUsed, totalIterations, executionPath,
            opc, calls, ret >>

\* classifyProblem on its own
VARIABLES
  context,             \* the AgentExecutionContext classifyProblem is called with
  classified           \* the ProblemClassification it returned

cvars == << context, classified >>

\* SpecialistAgent
VARIABLES
  agentMaxIterations,  \* this.maxIterations
  recordsIterations,   \* whether applyFix of this agent calls recordIteration
  agentSuggestions,    \* the local suggestions of execute
  agentIteration,      \* the local iteration of execute
  agentSucceeded,      \* the local succeeded of execute
  agentHistory,        \* this.iterationHistory
  apc,                 \* where SpecialistAgent.execute stands
  applyCalls,          \* the calls of applyFix in order: the suggestion and the outcome
  bodies,              \* how many times the body of the for loop was entered
  agentThrew,          \* the method of the agent that threw, if one did
  agentResult          \* what SpecialistAgent.execute returned

avars == << agentMaxIterations, recordsIterations, agentSuggestions, agentIteration,
            agentSucceeded,
            agentHistory, apc, applyCalls, bodies, agentThrew, agentResult >>

\* EnhancedIterationEngine
VARIABLES
  executionMemory,     \* this.executionMemory: the entries in the order of the Map
  clock,               \* the value of Date.now()
  disk,                \* the file at memoryPersistencePath
  completedRuns,       \* the ids of the entries whose run has ended
  lastCall,            \* the last call on the engine, with its arguments and its value
  callCount            \* the number of calls that changed the engine so far

mvars == << executionMemory, clock, disk, completedRuns, lastCall, callCount >>

\* calculateClassificationConfidence
VARIABLE scored         \* the last call: errorLength, candidates and the value returned

\* two overlapping calls of MultiAgentOrchestrator.execute on one orchestrator
VARIABLES
  overlapCalls,        \* for each call: where it stands, its locals and what it returned
  thisExecutionPath,   \* the array this.executionPath refers to: 0 is the array of the
                       \* field initializer, c the array that call c created
  pathArrays,          \* the content of each of these arrays
  agentHistories       \* this.iterationHistory of each registered agent

\* SessionTraceProtocol
VARIABLES
  testResults,   \* this.testResults, the object that executeTrace returns
  tracePc,       \* where executeTrace stands
  traceSteps,    \* stepA, stepB and stepC of the call that runs or ran last
  traceCalls     \* the number of executeTrace calls that returned

ovlvars == << overlapCalls, thisExecutionPath, pathArrays, agentHistories >>

tvars == << testResults, tracePc, traceSteps, traceCalls >>

xvars == << scored, ovlvars, tvars >>

others == << ovars, cvars, avars, mvars, xvars >>

pvars == << maxIterations, phase, currentIteration, iterationHistory, completed, succeeded,
            failureError, verificationScript, verificationPassed, pc, verifyRuns, lastProc,
            fixCalls, budgetAtStart >>

vars == << pvars, others >>

\* the values of a component that is not running
NoClassification == [primaryCategory |-> "none", secondaryCategories |-> << >>,
                     suggestedAgents |-> << >>]
NullResult == [isNull |-> TRUE, success |-> FALSE, iterations |-> 0, changes |-> << >>,
               modifiedFiles |-> << >>]
NoReturn == [returned |-> FALSE]
EmptyContext == [request |-> {}, codebaseContext |-> {}, errorOutput |-> {}]

\* initializeAgents: the constructor registers the data analysis agent only
initializeAgents == {"data_analysis"}

\* confidence: 0.75 of the capability of DataAnalysisSpecialistAgent
DataAnalysisConfidence == 75

OrchIdle ==
  /\ agents = initializeAgents
  /\ capabilityConfidence = [specialty \in initializeAgents |-> DataAnalysisConfidence]
  /\ classification = NoClassification
  /\ idx = 0
  /\ result = NullResult
  /\ agentsUsed = << >>
  /\ totalIterations = 0
  /\ executionPath = << >>
  /\ opc = "idle"
  /\ calls = << >>
  /\ ret = NoReturn

NotScored == [scored |-> FALSE]

Calls == {1, 2}

NotCalled == [pc |-> "idle"]

OverlapIdle ==
  /\ overlapCalls = [c \in Calls |-> NotCalled]
  /\ thisExecutionPath = 0
  /\ pathArrays = [a \in {0} \cup Calls |-> << >>]
  /\ agentHistories = [a \in initializeAgents |-> << >>]

\* the field initializer of testResults
NoTestResults == [success |-> FALSE, steps |-> << >>, nextSteps |-> << >>]

TraceIdle ==
  /\ testResults = NoTestResults
  /\ tracePc = "idle"
  /\ traceSteps = << >>
  /\ traceCalls = 0

ExtrasIdle ==
  /\ scored = NotScored
  /\ OverlapIdle
  /\ TraceIdle

NoFile == [exists |-> FALSE, memories |-> << >>]
NoCall == [op |-> "none"]

MemoryIdle ==
  /\ executionMemory = << >>
  /\ clock = 1
  /\ disk = NoFile
  /\ completedRuns = {}
  /\ lastCall = NoCall
  /\ callCount = 0

ClassifyIdle ==
  /\ context = EmptyContext
  /\ classified = NoClassification

AgentIdle ==
  /\ agentMaxIterations = 5
  /\ recordsIterations = FALSE
  /\ agentSuggestions = << >>
  /\ agentIteration = 0
  /\ agentSucceeded = FALSE
  /\ agentHistory = << >>
  /\ apc = "idle"
  /\ applyCalls = << >>
  /\ bodies = 0
  /\ agentThrew = "none"
  /\ agentResult = NoReturn

ProtocolIdle ==
  /\ maxIterations = 5
  /\ budgetAtStart = 5
  /\ phase = "probe"
  /\ currentIteration = 0
  /\ iterationHistory = << >>
  /\ completed = FALSE
  /\ succeeded = FALSE
  /\ failureError = Undefined
  /\ verificationScript = NoScript
  /\ verificationPassed = FALSE
  /\ pc = "idle"
  /\ verifyRuns = << >>
  /\ lastProc = NoProcess
  /\ fixCalls = << >>

\* initializeState and the constructor
Init ==
  /\ maxIterations \in 0..MaxBudget
  /\ budgetAtStart = maxIterations
  /\ OrchIdle /\ ExtrasIdle /\ ClassifyIdle /\ AgentIdle /\ MemoryIdle
  /\ phase = "probe"
  /\ currentIteration = 0
  /\ iterationHistory = << >>
  /\ completed = FALSE
  /\ succeeded = FALSE
  /\ failureError = Undefined
  /\ verificationScript = NoScript
  /\ verificationPassed = FALSE
  /\ pc = "idle"
  /\ verifyRuns = << >>
  /\ lastProc = NoProcess
  /\ fixCalls = << >>

\* execute is called
Execute ==
  /\ pc = "idle"
  /\ pc' = "probe"
  /\ budgetAtStart' = maxIterations
  /\ UNCHANGED << others, maxIterations, phase, currentIteration, iterationHistory, completed,
                  succeeded, failureError, verificationScript, verificationPassed, verifyRuns,
                  lastProc, fixCalls >>

\* executeProbePhase when createVerificationScript returns
ProbeCreated ==
  /\ pc = "probe"
  /\ phase' = "probe"
  /\ verificationScript' = NewScript
  /\ pc' = "loop"
  /\ UNCHANGED << others, budgetAtStart, maxIterations, currentIteration, iterationHistory,
                  completed, succeeded, failureError, verificationPassed, verifyRuns, lastProc,
                  fixCalls >>

\* the failure to create the script swallowed, the run going on without a script
ProbeThrows_Swallowed ==
  /\ pc = "probe"
  /\ phase' = "probe"
  /\ failureError' = MsgWrite
  /\ pc' = "loop"
  /\ UNCHANGED << others, budgetAtStart, maxIterations, currentIteration, iterationHistory,
                  completed, succeeded, verificationScript, verificationPassed, verifyRuns,
                  lastProc, fixCalls >>

\* executeProbePhase when createVerificationScript throws: the catch of execute
ProbeThrows ==
  /\ pc = "probe"
  /\ phase' = "probe"
  /\ completed' = TRUE
  /\ succeeded' = FALSE
  /\ failureError' = MsgWrite
  /\ pc' = "returned"
  /\ UNCHANGED << others, budgetAtStart, maxIterations, currentIteration, iterationHistory,
                  verificationScript, verificationPassed, verifyRuns, lastProc, fixCalls >>

\* the phase left at Probe when the loop starts
EnterLoop_PhaseNotSet ==
  /\ pc = "loop"
  /\ verificationPassed' = FALSE
  /\ pc' = "while"
  /\ UNCHANGED << others, budgetAtStart, maxIterations, phase, currentIteration,
                  iterationHistory, completed, succeeded, failureError, verificationScript,
                  verifyRuns, lastProc, fixCalls >>

\* executeLoopPhase up to the first test of the while condition
EnterLoop ==
  /\ pc = "loop"
  /\ phase' = "loop"
  /\ verificationPassed' = FALSE
  /\ pc' = "while"
  /\ UNCHANGED << others, budgetAtStart, maxIterations, currentIteration, iterationHistory,
                  completed, succeeded, failureError, verificationScript, verifyRuns, lastProc,
                  fixCalls >>

\* one pass of the while body from the condition to the break or to the await
\* of executeIteration
RunVerification ==
  /\ pc = "while"
  /\ LoopCondition(currentIteration, maxIterations)
  /\ currentIteration' = currentIteration + 1
  /\ \E proc \in ProcessOutcomes :
       LET executedScript == executeVerificationScript(verificationScript, proc)
       IN  /\ verificationScript' = executedScript
           /\ verifyRuns' = Append(verifyRuns, [kind |-> proc.kind, code |-> proc.code])
           /\ lastProc' = proc
           /\ verificationPassed' =
                (IF isVerificationPassed(executedScript) THEN TRUE ELSE verificationPassed)
           /\ pc' = AfterVerification(isVerificationPassed(executedScript),
                                      currentIteration', maxIterations)
  /\ UNCHANGED << others, budgetAtStart, maxIterations, phase, iterationHistory, completed,
                  succeeded, failureError, fixCalls >>

\* the break after a failed fix left out
ApplyFix_NoBreak ==
  /\ pc = "fix"
  /\ LET errorOutput == extractErrorInfo(verificationScript)
         suggestions == generateFixSuggestions(errorOutput)
         outcomes    == IF Len(suggestions) = 0 THEN {FALSE}
                        ELSE applyFixOutcomes(ReduceBest(suggestions, 2, suggestions[1]))
     IN  \E applied \in outcomes :
           LET iterationResult == executeIteration(errorOutput, currentIteration, applied)
           IN  /\ iterationHistory' = Append(iterationHistory, iterationResult)
               /\ fixCalls' = Append(fixCalls, currentIteration)
               /\ pc' = "while"
  /\ UNCHANGED << others, budgetAtStart, maxIterations, phase, currentIteration, completed,
                  succeeded, failureError, verificationScript, verificationPassed, verifyRuns,
                  lastProc >>

\* the rest of the while body: executeIteration, the push and the test of success
ApplyFix ==
  /\ pc = "fix"
  /\ LET errorOutput == extractErrorInfo(verificationScript)
         suggestions == generateFixSuggestions(errorOutput)
         outcomes    == IF Len(suggestions) = 0 THEN {FALSE}
                        ELSE applyFixOutcomes(ReduceBest(suggestions, 2, suggestions[1]))
     IN  \E applied \in outcomes :
           LET iterationResult == executeIteration(errorOutput, currentIteration, applied)
           IN  /\ iterationHistory' = Append(iterationHistory, iterationResult)
               /\ fixCalls' = Append(fixCalls, currentIteration)
               /\ pc' = IF ~iterationResult.success THEN "exit" ELSE "while"
  /\ UNCHANGED << others, budgetAtStart, maxIterations, phase, currentIteration, completed,
                  succeeded, failureError, verificationScript, verificationPassed, verifyRuns,
                  lastProc >>

\* the while condition is false, or a break was taken: the end of executeLoopPhase
ExitLoop ==
  /\ \/ pc = "exit"
     \/ pc = "while" /\ ~LoopCondition(currentIteration, maxIterations)
  /\ succeeded' = LoopOutcome(verificationPassed, iterationHistory)
  /\ pc' = "completion"
  /\ UNCHANGED << others, budgetAtStart, maxIterations, phase, currentIteration,
                  iterationHistory, completed, failureError, verificationScript,
                  verificationPassed, verifyRuns, lastProc, fixCalls >>

\* completed left unset by the completion phase
ExecuteCompletionPhase_NotCompleted ==
  /\ pc = "completion"
  /\ phase' = "completion"
  /\ pc' = "returned"
  /\ UNCHANGED << others, budgetAtStart, maxIterations, currentIteration, iterationHistory,
                  completed, succeeded, failureError, verificationScript, verificationPassed,
                  verifyRuns, lastProc, fixCalls >>

\* executeCompletionPhase and the return of execute
ExecuteCompletionPhase ==
  /\ pc = "completion"
  /\ phase' = "completion"
  /\ completed' = TRUE
  /\ pc' = "returned"
  /\ UNCHANGED << others, budgetAtStart, maxIterations, currentIteration, iterationHistory,
                  succeeded, failureError, verificationScript, verificationPassed, verifyRuns,
                  lastProc, fixCalls >>

RunStep ==
  \/ ProbeCreated
  \/ ProbeThrows
  \/ EnterLoop
  \/ RunVerification
  \/ ApplyFix
  \/ ExitLoop
  \/ ExecuteCompletionPhase

Next ==
  \/ Execute
  \/ RunStep

Spec == Init /\ [][Next]_vars

\* execute runs to its return once called: nothing in it waits on anything
\* but its own promises
FairSpec == Spec /\ WF_vars(RunStep)

\* execute is called again on the same instance after it returned: execute
\* assigns nothing before the Probe phase, this.state is what the first run left
ExecuteAgain ==
  /\ pc = "returned"
  /\ pc' = "probe"
  /\ budgetAtStart' = maxIterations
  /\ UNCHANGED << others, maxIterations, phase, currentIteration, iterationHistory, completed,
                  succeeded, failureError, verificationScript, verificationPassed, verifyRuns,
                  lastProc, fixCalls >>

RerunNext ==
  \/ Execute
  \/ RunStep
  \/ ExecuteAgain

\* runs of execute one after the other on one instance
RerunSpec == Init /\ [][RerunNext]_vars

\* updateConfig, called by other code of the process while execute is suspended
\* at one of its awaits: after the Probe phase or in executeIteration
UpdateConfig ==
  /\ pc \in {"loop", "fix"}
  /\ \E n \in 0..MaxBudget : maxIterations' = n
  /\ UNCHANGED << others, budgetAtStart, phase, currentIteration, iterationHistory, completed,
                  succeeded, failureError, verificationScript, verificationPassed, pc,
                  verifyRuns, lastProc, fixCalls >>

ConfigNext ==
  \/ Execute
  \/ RunStep
  \/ UpdateConfig

\* a run with updateConfig calls in between
ConfigSpec == Init /\ [][ConfigNext]_vars


(***************************************************************************)
(* MultiAgentOrchestrator.classifyProblem                                  *)
(*                                                                         *)
(* A text is the set of the words it is made of.  String.includes is a     *)
(* search for a substring: a text includes a keyword when one of its words *)
(* holds the keyword, as "tests" holds "test".                             *)
(***************************************************************************)
MaxRequestWords == 2

\* the words a request is made of
RequestWords ==
  {"fix", "failing", "unit", "tests", "latest", "data", "SQL", "parse", "login", "token",
   "component", "useState", "typescript", "import", "build", "eslint", "refactor", "slow",
   "encrypt"}

\* the diagnostic texts
ErrorOutputs ==
  {{}, {"AssertionError", "Expected", "foo", "but", "got", "bar"}, {"TypeError", "null"},
   {"undefined"}, {"syntax"}, {"module"}, {"query"}}

\* the descriptions of the codebase
CodebaseContexts == {{}, {"redux"}, {"react"}}

\* String.prototype.toLowerCase on a word
LowerWord(w) ==
  CASE w = "SQL" -> "sql"
    [] w = "useState" -> "usestate"
    [] w = "AssertionError" -> "assertionerror"
    [] w = "Expected" -> "expected"
    [] w = "TypeError" -> "typeerror"
    [] OTHER -> w

toLowerCase(text) == {LowerWord(w) : w \in text}

\* the keywords of the classifier that are substrings of a word; the search
\* is case sensitive, so a word with a capital holds none
KeywordsIn(w) ==
  CASE w = "tests" -> {"test"}
    [] w = "latest" -> {"test"}
    [] w = "expected" -> {"expect"}
    [] w = "typeerror" -> {"type"}
    [] w = "typescript" -> {"type", "typescript"}
    [] w = "usestate" -> {"usestate", "state"}
    [] w = "eslint" -> {"lint", "eslint"}
    [] w \in {"data", "sql", "query", "parse", "login", "token", "component", "import",
              "build", "refactor", "slow", "encrypt", "null", "undefined", "syntax",
              "module", "redux", "react"} -> {w}
    [] OTHER -> {}

includes(text, kw) == \E w \in text : kw \in KeywordsIn(w)

\* the test of type ahead of the test of test
detectPrimaryCategory_TypeFirst(errorOutput, request) ==
  LET combined == toLowerCase(errorOutput \cup request)
  IN  IF includes(combined, "data") \/ includes(combined, "query") \/ includes(combined, "sql")
        THEN "logic"
      ELSE IF includes(combined, "type") \/ includes(combined, "typescript") THEN "type"
      ELSE IF includes(combined, "test") \/ includes(combined, "expect") THEN "test"
      ELSE IF includes(combined, "syntax") \/ includes(combined, "token") THEN "syntax"
      ELSE IF includes(combined, "import") \/ includes(combined, "module") THEN "dependency"
      ELSE IF includes(combined, "build") \/ includes(combined, "compile") THEN "build"
      ELSE IF includes(combined, "lint") \/ includes(combined, "eslint") THEN "lint"
      ELSE IF includes(combined, "performance") \/ includes(combined, "slow") THEN "other"
      ELSE "logic"

\* the chain of ifs over errorOutput + request
detectPrimaryCategory(errorOutput, request) ==
  LET combined == toLowerCase(errorOutput \cup request)
  IN  IF includes(combined, "data") \/ includes(combined, "query") \/ includes(combined, "sql")
        THEN "logic"
      ELSE IF includes(combined, "test") \/ includes(combined, "expect") THEN "test"
      ELSE IF includes(combined, "type") \/ includes(combined, "typescript") THEN "type"
      ELSE IF includes(combined, "syntax") \/ includes(combined, "token") THEN "syntax"
      ELSE IF includes(combined, "import") \/ includes(combined, "module") THEN "dependency"
      ELSE IF includes(combined, "build") \/ includes(combined, "compile") THEN "build"
      ELSE IF includes(combined, "lint") \/ includes(combined, "eslint") THEN "lint"
      ELSE IF includes(combined, "performance") \/ includes(combined, "slow") THEN "other"
      ELSE "logic"

\* the pushes of detectSecondaryCategories: runtime is pushed twice on null
detectSecondaryCategories(errorOutput) ==
  LET lower == toLowerCase(errorOutput)
      c1 == IF includes(lower, "type") THEN << "type" >> ELSE << >>
      c2 == IF includes(lower, "null") \/ includes(lower, "undefined")
              THEN Append(c1, "runtime") ELSE c1
  IN  IF includes(lower, "null") THEN Append(c2, "runtime") ELSE c2

webDevKeywords ==
  {"session", "login", "auth", "cookie", "bearer", "token", "nextauth", "express", "nestjs",
   "fastapi", "django", "middleware", "redirect", "csrf", "cors", "credential", "hydration",
   "useeffect", "usestate", "context", "redux", "zustand"}

uiKeywords ==
  {"component", "render", "blank", "display", "hook", "state", "react", "vue", "jsx", "tsx",
   "useeffect", "usestate"}

\* Array.prototype.includes on a list
Listed(list, x) == \E i \in 1..Len(list) : list[i] = x

\* no default when nothing matched
WithDefault_None(suggested) == suggested

\* the push of general when nothing matched
WithDefault(suggested) == IF Len(suggested) = 0 THEN << "general" >> ELSE suggested

\* the pushes of selectSuitableAgents before the default
SpecificAgents(primaryCategory, ctx) ==
  LET request  == toLowerCase(ctx.request)
      codebase == toLowerCase(ctx.codebaseContext)
      hasWebDevKeyword ==
        \E kw \in webDevKeywords : includes(request, kw) \/ includes(codebase, kw)
      hasUIKeyword ==
        \E kw \in uiKeywords : includes(request, kw) \/ includes(codebase, kw)
      s1 == IF hasWebDevKeyword THEN << "web_development" >> ELSE << >>
      s2 == IF hasUIKeyword /\ ~Listed(s1, "web_development")
              THEN Append(s1, "ui_refactoring") ELSE s1
      s3 == IF \E kw \in {"data", "query", "sql", "parse", "transform", "analysis"} :
                 includes(request, kw)
              THEN Append(s2, "data_analysis") ELSE s2
      s4 == IF includes(request, "test") \/ primaryCategory = "test"
              THEN Append(s3, "testing") ELSE s3
      s5 == IF \E kw \in {"architecture", "structure", "refactor", "design"} :
                 includes(request, kw)
              THEN Append(s4, "architecture") ELSE s4
      s6 == IF \E kw \in {"performance", "optimize", "fast", "slow"} : includes(request, kw)
              THEN Append(s5, "performance") ELSE s5
  IN  IF \E kw \in {"security", "vulnerable", "encrypt"} : includes(request, kw)
        THEN Append(s6, "security") ELSE s6

selectSuitableAgents(primaryCategory, secondaryCategories, ctx) ==
  WithDefault(SpecificAgents(primaryCategory, ctx))

classifyProblem(ctx) ==
  LET primaryCategory     == detectPrimaryCategory(ctx.errorOutput, ctx.request)
      secondaryCategories == detectSecondaryCategories(ctx.errorOutput)
  IN  [primaryCategory |-> primaryCategory,
       secondaryCategories |-> secondaryCategories,
       suggestedAgents |-> selectSuitableAgents(primaryCategory, secondaryCategories, ctx)]

\* the requests of at most MaxRequestWords words
Requests == {r \in SUBSET RequestWords : Cardinality(r) <= MaxRequestWords}

Contexts ==
  [request : Requests, codebaseContext : CodebaseContexts, errorOutput : ErrorOutputs]

\* the capability each agent class declares: its supportedErrorCategories
supportedErrorCategories(specialty) ==
  CASE specialty = "data_analysis" -> {"logic", "runtime", "type", "syntax", "other"}
    [] specialty = "web_development" -> {"logic", "runtime", "test", "dependency"}
    [] specialty = "ui_refactoring" -> {"logic", "type", "runtime"}
    [] specialty = "general" ->
         {"syntax", "type", "dependency", "logic", "test", "build", "lint", "runtime", "other"}
    [] OTHER -> {}

ClassifyInit ==
  /\ ProtocolIdle /\ OrchIdle /\ ExtrasIdle /\ AgentIdle /\ MemoryIdle
  /\ context \in Contexts
  /\ classified = NoClassification

Classify ==
  /\ classified = NoClassification
  /\ classified' = classifyProblem(context)
  /\ UNCHANGED << pvars, mvars, xvars, ovars, avars, context >>

ClassifyNext == Classify

\* classifyProblem called once on each context
ClassifySpec == ClassifyInit /\ [][ClassifyNext]_vars


(***************************************************************************)
(* MultiAgentOrchestrator.calculateClassificationConfidence.  The value is *)
(* in millionths: errorLength / 1000 is errorLength * 100 hundred-         *)
(* thousandths, and the factor 1 - (n - 1) * 0.1 is 10 - (n - 1) tenths.   *)
(***************************************************************************)

\* the longest errorOutput, in steps of 50 characters
MaxLengthSteps == 24

\* the most candidates in suggestedAgents
MaxCandidates == 7

ErrorLengths == {50 * k : k \in 0..MaxLengthSteps}

\* the value without the lower limit of 0.3
calculateClassificationConfidence_NoFloor(errorLength, candidates) ==
  LET min(a, b) == IF a < b THEN a ELSE b
      confidence == min(90000, errorLength * 100)
      lowered == confidence * (10 - (candidates - 1))
  IN  min(950000, lowered)

calculateClassificationConfidence(errorLength, candidates) ==
  LET min(a, b) == IF a < b THEN a ELSE b
      max(a, b) == IF a > b THEN a ELSE b
      confidence == min(90000, errorLength * 100)
      lowered == confidence * (10 - (candidates - 1))
  IN  max(300000, min(950000, lowered))

\* one call of calculateClassificationConfidence
ScoreClassification ==
  /\ \E errorLength \in ErrorLengths, candidates \in 1..MaxCandidates :
       scored' = [scored |-> TRUE, errorLength |-> errorLength, candidates |-> candidates,
                  value |-> calculateClassificationConfidence(errorLength, candidates)]
  /\ UNCHANGED << pvars, ovars, cvars, avars, mvars, ovlvars, tvars >>

ConfidenceInit ==
  ProtocolIdle /\ OrchIdle /\ ExtrasIdle /\ ClassifyIdle /\ AgentIdle /\ MemoryIdle

ConfidenceSpec == ConfidenceInit /\ [][ScoreClassification]_vars

(***************************************************************************)
(* MultiAgentOrchestrator.execute                                          *)
(***************************************************************************)
MaxAgentIter == 2

\* the contexts execute is called with
OrchContexts ==
  {[request |-> {"fix"}, codebaseContext |-> {}, errorOutput |-> {}],
   [request |-> {"data"}, codebaseContext |-> {}, errorOutput |-> {"query"}],
   [request |-> {"login", "data"}, codebaseContext |-> {}, errorOutput |-> {}],
   [request |-> {"parse", "tests"}, codebaseContext |-> {}, errorOutput |-> {}],
   [request |-> {"login", "parse"}, codebaseContext |-> {},
    errorOutput |-> {"AssertionError", "Expected", "foo", "but", "got", "bar"}]}

\* the specialties registerAgent is called with
Registrable == {"general", "testing", "web_development"}

\* capability.confidence of the agent registered for a specialty: 0.5 for
\* GeneralSpecialistAgent, 0.85 for WebDevelopmentSpecialistAgent; the source
\* has no testing agent, so one is an agent of the caller, of any confidence
RegistrableConfidences(specialty) ==
  CASE specialty = "general" -> {50}
    [] specialty = "web_development" -> {85}
    [] specialty = "testing" -> {50, 90}

\* what agent.execute of the agent of a specialty can resolve to
AgentResults(specialty) ==
  {[isNull |-> FALSE, success |-> s, iterations |-> n, changes |-> c, modifiedFiles |-> c] :
     s \in BOOLEAN, n \in 0..MaxAgentIter, c \in {<< >>, << specialty >>}}

\* the candidate the for loop stands at
Candidate == classification.suggestedAgents[idx]

\* the loop goes on after a success
AfterAgent_NoBreak(success) == "for"

\* if (result.success) break
AfterAgent(success) == IF success THEN "build" ELSE "for"

RegisterAgent ==
  /\ opc = "idle"
  /\ ret = NoReturn
  /\ \E specialty \in Registrable \ agents :
       /\ agents' = agents \cup {specialty}
       /\ \E confidence \in RegistrableConfidences(specialty) :
            capabilityConfidence' =
              [a \in agents' |-> IF a = specialty THEN confidence ELSE capabilityConfidence[a]]
  /\ UNCHANGED << pvars, mvars, xvars, cvars, avars, classification, idx, result, agentsUsed,
                  totalIterations, executionPath, opc, calls, ret >>

\* execute up to the for loop
OrchExecute ==
  /\ opc = "idle"
  /\ ret = NoReturn
  /\ \E ctx \in OrchContexts : classification' = classifyProblem(ctx)
  /\ executionPath' = << >>
  /\ result' = NullResult
  /\ agentsUsed' = << >>
  /\ totalIterations' = 0
  /\ idx' = 1
  /\ opc' = "for"
  /\ UNCHANGED << pvars, mvars, xvars, cvars, avars, agents, capabilityConfidence, calls, ret >>

\* a skipped candidate is pushed to agentsUsed
SkipAgent_CountsAsUsed ==
  /\ opc = "for"
  /\ idx <= Len(classification.suggestedAgents)
  /\ Candidate \notin agents
  /\ agentsUsed' = Append(agentsUsed, Candidate)
  /\ idx' = idx + 1
  /\ UNCHANGED << pvars, mvars, xvars, cvars, avars, agents, capabilityConfidence, classification, result,
                  totalIterations, executionPath, opc, calls, ret >>

\* if (!agent) continue
SkipAgent ==
  /\ opc = "for"
  /\ idx <= Len(classification.suggestedAgents)
  /\ Candidate \notin agents
  /\ idx' = idx + 1
  /\ UNCHANGED << pvars, mvars, xvars, cvars, avars, agents, capabilityConfidence, classification, result, agentsUsed,
                  totalIterations, executionPath, opc, calls, ret >>

\* the push of (start) and the call of agent.execute
StartAgent ==
  /\ opc = "for"
  /\ idx <= Len(classification.suggestedAgents)
  /\ Candidate \in agents
  /\ executionPath' = Append(executionPath, << Candidate, "start" >>)
  /\ opc' = "await"
  /\ UNCHANGED << pvars, mvars, xvars, cvars, avars, agents, capabilityConfidence, classification, idx, result, agentsUsed,
                  totalIterations, calls, ret >>

\* agent.execute resolves: the rest of the try block
AgentReturns ==
  /\ opc = "await"
  /\ \E r \in AgentResults(Candidate) :
       /\ result' = r
       /\ calls' = Append(calls, [agent |-> Candidate, outcome |-> "returned", result |-> r])
       /\ totalIterations' = totalIterations + r.iterations
       /\ opc' = AfterAgent(r.success)
  /\ agentsUsed' = Append(agentsUsed, Candidate)
  /\ executionPath' = Append(executionPath, << Candidate, "end" >>)
  /\ idx' = idx + 1
  /\ UNCHANGED << pvars, mvars, xvars, cvars, avars, agents, capabilityConfidence, classification, ret >>

\* the exception leaves execute
AgentThrows_Propagates ==
  /\ opc = "await"
  /\ calls' = Append(calls, [agent |-> Candidate, outcome |-> "threw", result |-> NullResult])
  /\ opc' = "thrown"
  /\ UNCHANGED << pvars, mvars, xvars, cvars, avars, agents, capabilityConfidence, classification, idx, result, agentsUsed,
                  totalIterations, executionPath, ret >>

\* agent.execute rejects: the catch block
AgentThrows ==
  /\ opc = "await"
  /\ calls' = Append(calls, [agent |-> Candidate, outcome |-> "threw", result |-> NullResult])
  /\ executionPath' = Append(executionPath, << Candidate, "error" >>)
  /\ idx' = idx + 1
  /\ opc' = "for"
  /\ UNCHANGED << pvars, mvars, xvars, cvars, avars, agents, capabilityConfidence, classification, result, agentsUsed,
                  totalIterations, ret >>

\* after the loop: the result of execute is built from the last result;
\* result?.x || d is d when result is null, which NullResult holds already
BuildResult ==
  /\ \/ opc = "build"
     \/ opc = "for" /\ idx > Len(classification.suggestedAgents)
  /\ ret' = [returned |-> TRUE,
             succeeded |-> result.success,
             primaryAgent |-> IF Len(agentsUsed) > 0 THEN agentsUsed[1] ELSE "general",
             agentsUsed |-> agentsUsed,
             totalIterations |-> totalIterations,
             changes |-> result.changes,
             modifiedFiles |-> result.modifiedFiles,
             executionPath |-> executionPath]
  /\ opc' = "done"
  /\ UNCHANGED << pvars, mvars, xvars, cvars, avars, agents, capabilityConfidence, classification, idx, result, agentsUsed,
                  totalIterations, executionPath, calls >>

OrchInit == ProtocolIdle /\ OrchIdle /\ ExtrasIdle /\ ClassifyIdle /\ AgentIdle /\ MemoryIdle

OrchNext ==
  \/ RegisterAgent
  \/ OrchExecute
  \/ SkipAgent
  \/ StartAgent
  \/ AgentReturns
  \/ AgentThrows
  \/ BuildResult

\* one execute on an orchestrator, after any registerAgent calls
OrchSpec == OrchInit /\ [][OrchNext]_vars


(***************************************************************************)
(* Two calls of MultiAgentOrchestrator.execute that overlap.  A step is    *)
(* the code that runs between two awaits: execute awaits agent.execute,    *)
(* which awaits analyzeContext and applyFix.  An event of executionPath    *)
(* and a change of an agent carry the call that made them.                 *)
(***************************************************************************)

\* the candidates of a context that have a registered agent, in order
RegisteredCandidates(ctx) ==
  SelectSeq(classifyProblem(ctx).suggestedAgents, LAMBDA specialty : specialty \in agents)

\* this.executionPath.push
PushPath(arrays, c, specialty, kind) ==
  [arrays EXCEPT ![thisExecutionPath] =
     Append(@, [call |-> c, agent |-> specialty, kind |-> kind])]

\* the return statement of execute: executionPath is this.executionPath, the
\* array itself
ReturnOf(c, returned) ==
  [pc |-> "done", changes |-> returned.changes, succeeded |-> returned.success,
   executionPath |-> thisExecutionPath]

\* execute from its first line to the first await: the field is given a new
\* array, the candidates without an agent are skipped, (start) is pushed and
\* agent.execute runs up to its await of analyzeContext
OverlapExecute(c) ==
  /\ overlapCalls[c].pc = "idle"
  /\ thisExecutionPath' = c
  /\ \E ctx \in OrchContexts :
       LET todo == RegisteredCandidates(ctx)
       IN  IF todo = << >>
             THEN /\ overlapCalls' =
                       [overlapCalls EXCEPT ![c] =
                          [pc |-> "done", changes |-> << >>, succeeded |-> FALSE,
                           executionPath |-> c]]
                  /\ pathArrays' = [pathArrays EXCEPT ![c] = << >>]
                  /\ UNCHANGED agentHistories
             ELSE /\ overlapCalls' =
                       [overlapCalls EXCEPT ![c] =
                          [pc |-> "analyze", agent |-> Head(todo), todo |-> Tail(todo)]]
                  /\ pathArrays' =
                       [pathArrays EXCEPT ![c] =
                          << [call |-> c, agent |-> Head(todo), kind |-> "start"] >>]
                  /\ agentHistories' = [agentHistories EXCEPT ![Head(todo)] = << >>]
  /\ UNCHANGED << pvars, ovars, cvars, avars, mvars, scored, tvars >>

\* analyzeContext resolves: no suggestion and buildResult, or the call of
\* applyFix, which records the iteration
OverlapAnalyzed(c) ==
  /\ overlapCalls[c].pc = "analyze"
  /\ LET agent == overlapCalls[c].agent
     IN  \/ /\ overlapCalls' =
                 [overlapCalls EXCEPT ![c] =
                    [pc |-> "resume", agent |-> agent, todo |-> @.todo,
                     agentResult |-> [success |-> FALSE, changes |-> agentHistories[agent]]]]
            /\ UNCHANGED agentHistories
         \/ /\ overlapCalls' = [overlapCalls EXCEPT ![c].pc = "apply"]
            /\ agentHistories' = [agentHistories EXCEPT ![agent] = Append(@, c)]
  /\ UNCHANGED << pvars, ovars, cvars, avars, mvars, scored, tvars, thisExecutionPath,
                  pathArrays >>

\* applyFix resolves and agent.execute returns buildResult
OverlapApplied(c) ==
  /\ overlapCalls[c].pc = "apply"
  /\ \E success \in BOOLEAN :
       overlapCalls' =
         [overlapCalls EXCEPT ![c] =
            [pc |-> "resume", agent |-> @.agent, todo |-> @.todo,
             agentResult |-> [success |-> success, changes |-> agentHistories[@.agent]]]]
  /\ UNCHANGED << pvars, ovars, cvars, avars, mvars, scored, tvars, thisExecutionPath,
                  pathArrays, agentHistories >>

\* agent.execute resolved: (end) is pushed, and execute returns or goes on to
\* the next candidate that has an agent
OverlapResumed(c) ==
  /\ overlapCalls[c].pc = "resume"
  /\ LET call == overlapCalls[c]
         ended == PushPath(pathArrays, c, call.agent, "end")
     IN  IF call.agentResult.success \/ call.todo = << >>
           THEN /\ pathArrays' = ended
                /\ overlapCalls' = [overlapCalls EXCEPT ![c] = ReturnOf(c, call.agentResult)]
                /\ UNCHANGED agentHistories
           ELSE /\ pathArrays' = PushPath(ended, c, Head(call.todo), "start")
                /\ overlapCalls' =
                     [overlapCalls EXCEPT ![c] =
                        [pc |-> "analyze", agent |-> Head(call.todo),
                         todo |-> Tail(call.todo)]]
                /\ agentHistories' = [agentHistories EXCEPT ![Head(call.todo)] = << >>]
  /\ UNCHANGED << pvars, ovars, cvars, avars, mvars, scored, tvars, thisExecutionPath >>

OverlapInit ==
  ProtocolIdle /\ OrchIdle /\ ExtrasIdle /\ ClassifyIdle /\ AgentIdle /\ MemoryIdle

OverlapNext ==
  \E c \in Calls :
    \/ OverlapExecute(c)
    \/ OverlapAnalyzed(c)
    \/ OverlapApplied(c)
    \/ OverlapResumed(c)

OverlapSpec == OverlapInit /\ [][OverlapNext]_vars

(***************************************************************************)
(* SessionTraceProtocol.executeTrace, called one or more times on the same *)
(* instance.  What a step finds depends on the files of the project, which *)
(* can change between two calls: each step draws its outcome anew.         *)
(***************************************************************************)

MaxTraces == 2

\* the results verifyBackend can return, by the issue it sets
BackendResults ==
  {[step |-> "A", verified |-> issue = "none", issue |-> issue] :
     issue \in {"noAPIEndpoint", "missingUserObject", "incorrectDataStructure",
                "serverError", "none"}}

\* the results verifyNetwork can return: noCookies leaves the step verified
NetworkResults ==
  {[step |-> "B", verified |-> issue \in {"noCookies", "none"}, issue |-> issue] :
     issue \in {"missingCredentials", "errorDetails", "noCookies", "none"}}

\* the results verifyFrontend can return: notPersistingOnRefresh leaves the
\* step verified
FrontendResults ==
  {[step |-> "C", verified |-> issue \in {"notPersistingOnRefresh", "none"},
    issue |-> issue] :
     issue \in {"noStateManagement", "errorDetails", "notPersistingOnRefresh", "none"}}

FixBackend == "FIX BACKEND: Ensure API returns complete user object"
FixNetwork == "FIX NETWORK: Configure credentials in fetch/axios calls"
FixFrontend == "FIX FRONTEND: Ensure state management receives and stores session"
SessionVerified == "SESSION VERIFIED: All three steps passed"
ConsiderRefresh == "Consider adding periodic session refresh to sync with backend"

\* Array.prototype.find on the step name: the first such element, or none
FindStep(steps, name) ==
  LET places == {i \in 1..Len(steps) : steps[i].step = name}
  IN  IF places = {}
        THEN << >>
        ELSE << steps[CHOOSE i \in places : \A j \in places : i <= j] >>

\* generateRecommendations, on this.testResults
generateRecommendations(results) ==
  LET Fix(name, text) ==
        LET found == FindStep(results.steps, name)
        IN  IF found # << >> /\ ~found[1].verified THEN << text >> ELSE << >>
  IN  Fix("A", FixBackend) \o Fix("B", FixNetwork) \o Fix("C", FixFrontend)
        \o (IF results.success THEN << SessionVerified, ConsiderRefresh >> ELSE << >>)

\* executeTrace is called
ExecuteTrace ==
  /\ tracePc \in {"idle", "returned"}
  /\ traceCalls < MaxTraces
  /\ tracePc' = "A"
  /\ traceSteps' = << >>
  /\ UNCHANGED << pvars, ovars, cvars, avars, mvars, scored, ovlvars, testResults, traceCalls >>

\* verifyBackend returns and its result is pushed
VerifyBackend ==
  /\ tracePc = "A"
  /\ \E stepA \in BackendResults :
       /\ testResults' = [testResults EXCEPT !.steps = Append(@, stepA)]
       /\ traceSteps' = Append(traceSteps, stepA)
  /\ tracePc' = "B"
  /\ UNCHANGED << pvars, ovars, cvars, avars, mvars, scored, ovlvars, traceCalls >>

\* verifyNetwork returns and its result is pushed
VerifyNetwork ==
  /\ tracePc = "B"
  /\ \E stepB \in NetworkResults :
       /\ testResults' = [testResults EXCEPT !.steps = Append(@, stepB)]
       /\ traceSteps' = Append(traceSteps, stepB)
  /\ tracePc' = "C"
  /\ UNCHANGED << pvars, ovars, cvars, avars, mvars, scored, ovlvars, traceCalls >>

\* verifyFrontend returns: its result is pushed, success and nextSteps are
\* set and this.testResults is returned
VerifyFrontend ==
  /\ tracePc = "C"
  /\ \E stepC \in FrontendResults :
       LET pushed == [testResults EXCEPT !.steps = Append(@, stepC)]
           decided == [pushed EXCEPT !.success =
                         traceSteps[1].verified /\ traceSteps[2].verified /\ stepC.verified]
       IN  /\ testResults' = [decided EXCEPT !.nextSteps = generateRecommendations(decided)]
           /\ traceSteps' = Append(traceSteps, stepC)
  /\ tracePc' = "returned"
  /\ traceCalls' = traceCalls + 1
  /\ UNCHANGED << pvars, ovars, cvars, avars, mvars, scored, ovlvars >>

TraceInit ==
  ProtocolIdle /\ OrchIdle /\ ExtrasIdle /\ ClassifyIdle /\ AgentIdle /\ MemoryIdle

TraceNext ==
  \/ ExecuteTrace
  \/ VerifyBackend
  \/ VerifyNetwork
  \/ VerifyFrontend

TraceSpec == TraceInit /\ [][TraceNext]_vars

(***************************************************************************)
(* SpecialistAgent.execute                                                 *)
(*                                                                         *)
(* Confidences are in hundredths, and the score of selectBestSuggestion    *)
(* confidence * (1 - (iteration - 1) * 0.1) is in thousandths.             *)
(***************************************************************************)
MaxAgentBudget == 3
MaxSuggestions == 2

\* the confidences of the suggestions: below, at and above the 0.8 of execute
Confidences == {70, 80, 90}

\* what analyzeContext can resolve to
SuggestionLists ==
  UNION {{[i \in 1..n |-> [id |-> i, confidence |-> f[i]]] : f \in [1..n -> Confidences]} :
           n \in 0..MaxSuggestions}

Score(suggestion, iter) == suggestion.confidence * (10 - (iter - 1))

\* Array.prototype.sort is stable: an element goes after the elements that
\* the comparator does not put behind it
RECURSIVE InsertByScore(_, _, _)
InsertByScore(sorted, s, iter) ==
  IF sorted = << >> THEN << s >>
  ELSE IF Score(s, iter) > Score(Head(sorted), iter) THEN << s >> \o sorted
  ELSE << Head(sorted) >> \o InsertByScore(Tail(sorted), s, iter)

RECURSIVE SortByScore(_, _, _)
SortByScore(list, k, iter) ==
  IF k = 0 THEN << >>
  ELSE InsertByScore(SortByScore(list, k - 1, iter), list[k], iter)

\* the list after the sort in place of selectBestSuggestion; sorted[0] is its head
selectBestSuggestion(list, iter) == SortByScore(list, Len(list), iter)

RECURSIVE FlatChanges(_)
FlatChanges(history) ==
  IF history = << >> THEN << >> ELSE Head(history).changes \o FlatChanges(Tail(history))

buildResult(success, iterations, error) ==
  [returned |-> TRUE, success |-> success, iterations |-> iterations,
   changes |-> FlatChanges(agentHistory), error |-> error]

\* recordIteration as DataAnalysisSpecialistAgent.applyFix calls it on success
recordIteration(history, fix) ==
  Append(history, [success |-> TRUE, iteration |-> Len(history) + 1,
                   changes |-> << fix.id >>])

AgentInit ==
  /\ ProtocolIdle /\ OrchIdle /\ ExtrasIdle /\ ClassifyIdle /\ MemoryIdle
  /\ agentMaxIterations \in 1..MaxAgentBudget
  /\ recordsIterations \in BOOLEAN
  /\ agentSuggestions = << >>
  /\ agentIteration = 0
  /\ agentSucceeded = FALSE
  /\ agentHistory = << >>
  /\ apc = "idle"
  /\ applyCalls = << >>
  /\ bodies = 0
  /\ agentThrew = "none"
  /\ agentResult = NoReturn

\* execute up to the await of analyzeContext
AgentExecute ==
  /\ apc = "idle"
  /\ agentResult = NoReturn
  /\ agentHistory' = << >>
  /\ agentSucceeded' = FALSE
  /\ agentIteration' = 0
  /\ apc' = "analyze"
  /\ UNCHANGED << pvars, mvars, xvars, ovars, cvars, agentMaxIterations, recordsIterations, agentThrew,
                  agentSuggestions, applyCalls, bodies, agentResult >>

\* analyzeContext resolves: the early return on no suggestion, or into the loop
AnalyzeReturns ==
  /\ apc = "analyze"
  /\ \E list \in SuggestionLists :
       /\ agentSuggestions' = list
       /\ IF Len(list) = 0
            THEN /\ agentResult' = buildResult(FALSE, 0, "none")
                 /\ apc' = "done"
                 /\ UNCHANGED agentIteration
            ELSE /\ agentIteration' = 1
                 /\ apc' = "for"
                 /\ UNCHANGED agentResult
  /\ UNCHANGED << pvars, mvars, xvars, ovars, cvars, agentMaxIterations, recordsIterations, agentThrew,
                  agentSucceeded, agentHistory, applyCalls, bodies >>

\* analyzeContext rejects: the catch block
AnalyzeThrows ==
  /\ apc = "analyze"
  /\ agentThrew' = "analyzeContext"
  /\ agentResult' = buildResult(FALSE, agentIteration, "error.message")
  /\ apc' = "done"
  /\ UNCHANGED << pvars, mvars, xvars, ovars, cvars, agentMaxIterations, recordsIterations,
                  agentSuggestions, agentIteration, agentSucceeded, agentHistory,
                  applyCalls, bodies >>

\* the loop condition holds: selectBestSuggestion up to the await of applyFix
SelectSuggestion ==
  /\ apc = "for"
  /\ agentIteration <= agentMaxIterations
  /\ bodies' = bodies + 1
  /\ agentSuggestions' = selectBestSuggestion(agentSuggestions, agentIteration)
  /\ apc' = "apply"
  /\ UNCHANGED << pvars, mvars, xvars, ovars, cvars, agentMaxIterations, recordsIterations, agentThrew,
                  agentIteration, agentSucceeded, agentHistory, applyCalls, agentResult >>

\* the loop condition holds and selectBestSuggestion, which a subclass may
\* override, rejects: the catch block
SelectThrows ==
  /\ apc = "for"
  /\ agentIteration <= agentMaxIterations
  /\ bodies' = bodies + 1
  /\ agentThrew' = "selectBestSuggestion"
  /\ agentResult' = buildResult(FALSE, agentIteration, "error.message")
  /\ apc' = "done"
  /\ UNCHANGED << pvars, mvars, xvars, ovars, cvars, agentMaxIterations, recordsIterations,
                  agentSuggestions, agentIteration, agentSucceeded, agentHistory,
                  applyCalls >>

\* one call of applyFix: the suggestion and "true", "false" or "threw"
ApplyCall(suggestion, outcome) ==
  [id |-> suggestion.id, confidence |-> suggestion.confidence, applied |-> outcome]

\* success declared at a confidence of 0.8 already
ApplyReturns_AtThreshold ==
  /\ apc = "apply"
  /\ LET suggestion == agentSuggestions[1]
     IN  /\ \E applied \in BOOLEAN :
              /\ applyCalls' = Append(applyCalls, ApplyCall(suggestion,
                                                            IF applied THEN "true" ELSE "false"))
              /\ agentHistory' = IF applied /\ recordsIterations
                                   THEN recordIteration(agentHistory, suggestion)
                                   ELSE agentHistory
              /\ IF applied /\ suggestion.confidence >= 80
                   THEN /\ agentSucceeded' = TRUE
                        /\ apc' = "build"
                        /\ UNCHANGED agentIteration
                   ELSE /\ agentIteration' = agentIteration + 1
                        /\ apc' = "for"
                        /\ UNCHANGED agentSucceeded
  /\ UNCHANGED << pvars, mvars, xvars, ovars, cvars, agentMaxIterations, recordsIterations, agentThrew,
                  agentSuggestions, bodies, agentResult >>

\* applyFix resolves: continue, break on a confidence above 0.8, or the next pass
ApplyReturns ==
  /\ apc = "apply"
  /\ LET suggestion == agentSuggestions[1]
     IN  /\ \E applied \in BOOLEAN :
              /\ applyCalls' = Append(applyCalls, ApplyCall(suggestion,
                                                            IF applied THEN "true" ELSE "false"))
              /\ agentHistory' = IF applied /\ recordsIterations
                                   THEN recordIteration(agentHistory, suggestion)
                                   ELSE agentHistory
              /\ IF applied /\ suggestion.confidence > 80
                   THEN /\ agentSucceeded' = TRUE
                        /\ apc' = "build"
                        /\ UNCHANGED agentIteration
                   ELSE /\ agentIteration' = agentIteration + 1
                        /\ apc' = "for"
                        /\ UNCHANGED agentSucceeded
  /\ UNCHANGED << pvars, mvars, xvars, ovars, cvars, agentMaxIterations, recordsIterations, agentThrew,
                  agentSuggestions, bodies, agentResult >>

\* the exception of applyFix leaves execute
ApplyThrows_Propagates ==
  /\ apc = "apply"
  /\ applyCalls' = Append(applyCalls, ApplyCall(agentSuggestions[1], "threw"))
  /\ agentThrew' = "applyFix"
  /\ apc' = "thrown"
  /\ UNCHANGED << pvars, mvars, xvars, ovars, cvars, agentMaxIterations, recordsIterations,
                  agentSuggestions, agentIteration, agentSucceeded, agentHistory, bodies,
                  agentResult >>

\* applyFix rejects: the catch block
ApplyThrows ==
  /\ apc = "apply"
  /\ applyCalls' = Append(applyCalls, ApplyCall(agentSuggestions[1], "threw"))
  /\ agentThrew' = "applyFix"
  /\ agentResult' = buildResult(FALSE, agentIteration, "error.message")
  /\ apc' = "done"
  /\ UNCHANGED << pvars, mvars, xvars, ovars, cvars, agentMaxIterations, recordsIterations,
                  agentSuggestions, agentIteration, agentSucceeded, agentHistory, bodies >>

\* the loop is over, by its condition or by break: return buildResult
AgentBuild ==
  /\ \/ apc = "build"
     \/ apc = "for" /\ agentIteration > agentMaxIterations
  /\ agentResult' = buildResult(agentSucceeded, agentIteration, "none")
  /\ apc' = "done"
  /\ UNCHANGED << pvars, mvars, xvars, ovars, cvars, agentMaxIterations, recordsIterations, agentThrew,
                  agentSuggestions, agentIteration, agentSucceeded, agentHistory,
                  applyCalls, bodies >>

AgentNext ==
  \/ AgentExecute
  \/ AnalyzeReturns
  \/ AnalyzeThrows
  \/ SelectSuggestion
  \/ SelectThrows
  \/ ApplyReturns
  \/ ApplyThrows
  \/ AgentBuild

\* one execute on an agent
AgentSpec == AgentInit /\ [][AgentNext]_vars


\* maxIterations: 12 of the capability of WebDevelopmentSpecialistAgent
WebDevMaxIterations == 12

\* one execute on an agent with the budget of the web development agent
WebDevInit ==
  /\ ProtocolIdle /\ OrchIdle /\ ExtrasIdle /\ ClassifyIdle /\ MemoryIdle
  /\ agentMaxIterations = WebDevMaxIterations
  /\ recordsIterations = FALSE
  /\ agentSuggestions = << >>
  /\ agentIteration = 0
  /\ agentSucceeded = FALSE
  /\ agentHistory = << >>
  /\ apc = "idle"
  /\ applyCalls = << >>
  /\ bodies = 0
  /\ agentThrew = "none"
  /\ agentResult = NoReturn

WebDevSpec == WebDevInit /\ [][AgentNext]_vars

(***************************************************************************)
(* EnhancedIterationEngine: the execution memory.  The Map is the sequence *)
(* of its values in insertion order; the key of an entry is its            *)
(* executionId.  A request is the sequence of the words that split(/\s+/)  *)
(* yields.  A similarity is the fraction num / den.                        *)
(***************************************************************************)

\* the largest value of Date.now()
MaxTime == 2

\* the largest keepCount passed to pruneMemory
MaxKeep == 3

\* the longest token list compared
MaxTokens == 2

\* the number of calls that change the engine
MaxCalls == 4

\* one entry more than the default keepCount
MaxRuns == 101

\* keepCount: number = 100
DefaultKeepCount == 100

ExecutionIds == {"run1", "run2"}

MemoryRequests == {<< "go", "it" >>, << "fix", "tests" >>, << "fix", "SQL", "tests" >>}

\* the solutions recorded: agentSpecialty, approach, result
Attempts ==
  {[agentSpecialty |-> "testing", approach |-> "fix implementation", result |-> "success"],
   [agentSpecialty |-> "testing", approach |-> "rewrite test", result |-> "failure"],
   [agentSpecialty |-> "general", approach |-> "rewrite test", result |-> "success"]}

\* token.length
WordLength(w) ==
  CASE w \in {"go", "it"} -> 2
    [] w \in {"fix", "SQL", "sql"} -> 3
    [] w = "tests" -> 5

HasMemory(memories, id) == \E i \in 1..Len(memories) : memories[i].executionId = id

\* Map.get
GetMemory(memories, id) ==
  memories[CHOOSE i \in 1..Len(memories) : memories[i].executionId = id]

\* Map.set: a key already there keeps its place
SetMemory(memories, memory) ==
  IF HasMemory(memories, memory.executionId)
    THEN [i \in 1..Len(memories) |->
            IF memories[i].executionId = memory.executionId THEN memory ELSE memories[i]]
    ELSE Append(memories, memory)

createExecutionMemory(memories, requestId, originalRequest, now) ==
  SetMemory(memories,
            [executionId |-> requestId, originalRequest |-> originalRequest,
             attemptedSolutions |-> << >>, appliedChanges |-> << >>,
             succeeded |-> FALSE, totalIterations |-> 0, timestamp |-> now])

recordAttempt(memories, executionId, attempt) ==
  IF ~HasMemory(memories, executionId) THEN memories
  ELSE SetMemory(memories,
                 [GetMemory(memories, executionId) EXCEPT
                    !.attemptedSolutions = Append(@, attempt)])

recordAppliedChange(memories, executionId, filePath, now) ==
  IF ~HasMemory(memories, executionId) THEN memories
  ELSE SetMemory(memories,
                 [GetMemory(memories, executionId) EXCEPT
                    !.appliedChanges = Append(@, [filePath |-> filePath, timestamp |-> now])])

\* the entry after markSucceeded, before the store is written
markSucceeded(memories, executionId, iterations) ==
  IF ~HasMemory(memories, executionId) THEN memories
  ELSE SetMemory(memories,
                 [GetMemory(memories, executionId) EXCEPT
                    !.succeeded = TRUE, !.totalIterations = iterations])

\* toLowerCase, split, filter(token => token.length > 2)
tokenize(text) ==
  SelectSeq([i \in 1..Len(text) |-> LowerWord(text[i])], LAMBDA token : WordLength(token) > 2)

TokenSet(tokens) == {tokens[i] : i \in 1..Len(tokens)}

\* the union taken as the size of the first set
calculateSimilarity_FirstSetOnly(tokens1, tokens2) ==
  LET set1 == TokenSet(tokens1)
      set2 == TokenSet(tokens2)
      intersection == Cardinality({token \in set1 : token \in set2})
      union == Cardinality(set1)
  IN  IF union > 0 THEN [num |-> intersection, den |-> union] ELSE [num |-> 0, den |-> 1]

calculateSimilarity(tokens1, tokens2) ==
  LET set1 == TokenSet(tokens1)
      set2 == TokenSet(tokens2)
      intersection == Cardinality({token \in set1 : token \in set2})
      union == Cardinality(set1) + Cardinality(set2) - intersection
  IN  IF union > 0 THEN [num |-> intersection, den |-> union] ELSE [num |-> 0, den |-> 1]

\* similarity > 0.5
AboveHalf(similarity) == 2 * similarity.num > similarity.den

\* Array.prototype.sort with (a, b) => b[field] - a[field]: descending and
\* stable, so an element comes after those of a greater field and after the
\* earlier ones of an equal field
SortDesc(list, field) ==
  LET Place(i) ==
        1 + Cardinality({j \in 1..Len(list) :
                           \/ list[j][field] > list[i][field]
                           \/ list[j][field] = list[i][field] /\ j < i})
  IN  [p \in 1..Len(list) |-> list[CHOOSE i \in 1..Len(list) : Place(i) = p]]

\* the results in the order of the Map, without the sort
getSimilarSuccesses_Unsorted(memories, currentRequest, agentSpecialty) ==
  LET currentTokens == tokenize(currentRequest)
      Kept(memory) ==
        /\ memory.succeeded
        /\ AboveHalf(calculateSimilarity(currentTokens, tokenize(memory.originalRequest)))
        /\ \/ agentSpecialty = "undefined"
           \/ \E i \in 1..Len(memory.attemptedSolutions) :
                memory.attemptedSolutions[i].agentSpecialty = agentSpecialty
      results == SelectSeq(memories, Kept)
  IN  results

\* agentSpecialty is "undefined" when the argument is left out
getSimilarSuccesses(memories, currentRequest, agentSpecialty) ==
  LET currentTokens == tokenize(currentRequest)
      Kept(memory) ==
        /\ memory.succeeded
        /\ AboveHalf(calculateSimilarity(currentTokens, tokenize(memory.originalRequest)))
        /\ \/ agentSpecialty = "undefined"
           \/ \E i \in 1..Len(memory.attemptedSolutions) :
                memory.attemptedSolutions[i].agentSpecialty = agentSpecialty
      results == SelectSeq(memories, Kept)
  IN  SortDesc(results, "totalIterations")

RECURSIVE SolutionsOf(_)
SolutionsOf(successes) ==
  IF successes = << >> THEN << >>
  ELSE Head(successes).attemptedSolutions \o SolutionsOf(Tail(successes))

\* the approaches that failed are not left out
suggestNextApproach_IgnoresFailed(memories, executionId, failedApproaches, agentSpecialties) ==
  IF ~HasMemory(memories, executionId) THEN "null"
  ELSE LET successes ==
             getSimilarSuccesses(memories, GetMemory(memories, executionId).originalRequest,
                                 "undefined")
           Usable(solution) ==
             /\ solution.result = "success"
             /\ solution.agentSpecialty \in agentSpecialties
           usable == SelectSeq(SolutionsOf(successes), Usable)
       IN  IF usable = << >> THEN "null" ELSE Head(usable).approach

\* the approach returned, "null" when there is none
suggestNextApproach(memories, executionId, failedApproaches, agentSpecialties) ==
  IF ~HasMemory(memories, executionId) THEN "null"
  ELSE LET successes ==
             getSimilarSuccesses(memories, GetMemory(memories, executionId).originalRequest,
                                 "undefined")
           Usable(solution) ==
             /\ solution.result = "success"
             /\ solution.approach \notin failedApproaches
             /\ solution.agentSpecialty \in agentSpecialties
           usable == SelectSeq(SolutionsOf(successes), Usable)
       IN  IF usable = << >> THEN "null" ELSE Head(usable).approach

\* the file after writeFileSync of the values of the Map
persistMemory(memories) == [exists |-> TRUE, memories |-> memories]

\* the Map after the sets of loadMemory
RECURSIVE SetAll(_, _, _)
SetAll(memories, loaded, k) ==
  IF k = 0 THEN memories
  ELSE SetMemory(SetAll(memories, loaded, k - 1), loaded[k])

loadMemory(memories, file) ==
  IF file.exists THEN SetAll(memories, file.memories, Len(file.memories)) ELSE memories

\* the first keepCount entries of the Map kept, without the sort
pruneMemory_Unsorted(memories, keepCount) ==
  IF Len(memories) <= keepCount THEN memories
  ELSE SubSeq(memories, 1, keepCount)

\* the Map after pruneMemory
pruneMemory(memories, keepCount) ==
  IF Len(memories) <= keepCount THEN memories
  ELSE SubSeq(SortDesc(memories, "timestamp"), 1, keepCount)

\* the token lists compared: up to MaxTokens tokens, duplicates included
TokenLists == UNION {[1..n -> {"fix", "tests", "sql"}] : n \in 0..MaxTokens}

\* one call of calculateSimilarity on two token lists
CalculateSimilarity ==
  /\ \E tokens1 \in TokenLists, tokens2 \in TokenLists :
       lastCall' = [op |-> "calculateSimilarity", tokens1 |-> tokens1, tokens2 |-> tokens2,
                    value |-> calculateSimilarity(tokens1, tokens2)]
  /\ UNCHANGED << pvars, xvars, ovars, cvars, avars, executionMemory, clock, disk, completedRuns,
                  callCount >>

SimilarityInit == ProtocolIdle /\ OrchIdle /\ ExtrasIdle /\ ClassifyIdle /\ AgentIdle /\ MemoryIdle

SimilarityNext == CalculateSimilarity

SimilaritySpec == SimilarityInit /\ [][SimilarityNext]_vars

\* Date.now() moves on
Tick ==
  /\ clock < MaxTime
  /\ clock' = clock + 1
  /\ UNCHANGED << pvars, xvars, ovars, cvars, avars, executionMemory, disk, completedRuns, lastCall,
                  callCount >>

\* a run starts: createExecutionMemory(requestId, originalRequest); the first
\* run of a store is run1, the ids being interchangeable
CreateExecutionMemory ==
  /\ callCount < MaxCalls
  /\ \E requestId \in {id \in ExecutionIds : id = "run1" \/ executionMemory # << >>},
        originalRequest \in MemoryRequests :
       /\ executionMemory' =
            createExecutionMemory(executionMemory, requestId, originalRequest, clock)
       /\ completedRuns' = completedRuns \ {requestId}
       /\ lastCall' = [op |-> "createExecutionMemory"]
  /\ callCount' = callCount + 1
  /\ UNCHANGED << pvars, xvars, ovars, cvars, avars, clock, disk >>

RecordAttempt ==
  /\ callCount < MaxCalls
  /\ \E executionId \in ExecutionIds \ completedRuns, attempt \in Attempts :
       /\ executionMemory' = recordAttempt(executionMemory, executionId, attempt)
       /\ lastCall' = [op |-> "recordAttempt"]
  /\ callCount' = callCount + 1
  /\ UNCHANGED << pvars, xvars, ovars, cvars, avars, clock, disk, completedRuns >>

RecordAppliedChange ==
  /\ callCount < MaxCalls
  /\ \E executionId \in ExecutionIds \ completedRuns :
       /\ executionMemory' =
            recordAppliedChange(executionMemory, executionId, "src/index.ts", clock)
       /\ lastCall' = [op |-> "recordAppliedChange"]
  /\ callCount' = callCount + 1
  /\ UNCHANGED << pvars, xvars, ovars, cvars, avars, clock, disk, completedRuns >>

\* markSucceeded writes the store when the entry exists
MarkSucceeded ==
  /\ callCount < MaxCalls
  /\ \E executionId \in ExecutionIds \ completedRuns, iterations \in 1..2 :
       /\ executionMemory' = markSucceeded(executionMemory, executionId, iterations)
       /\ disk' = IF HasMemory(executionMemory, executionId)
                    THEN persistMemory(executionMemory') ELSE disk
       /\ lastCall' = [op |-> "markSucceeded"]
  /\ callCount' = callCount + 1
  /\ UNCHANGED << pvars, xvars, ovars, cvars, avars, clock, completedRuns >>

\* pruneMemory(keepCount) writes the store when it evicts
PruneCall(keepCount) ==
  /\ executionMemory' = pruneMemory(executionMemory, keepCount)
  /\ disk' = IF Len(executionMemory) <= keepCount THEN disk
             ELSE persistMemory(executionMemory')
  /\ lastCall' = [op |-> "pruneMemory", keepCount |-> keepCount]
  /\ UNCHANGED << pvars, xvars, ovars, cvars, avars, clock, completedRuns >>

PruneMemory ==
  /\ callCount < MaxCalls
  /\ \E keepCount \in 0..MaxKeep : PruneCall(keepCount)
  /\ callCount' = callCount + 1

\* the run of an entry ends, with or without markSucceeded; the engine has no
\* call for the end of a run
RunCompletes ==
  /\ \E executionId \in ExecutionIds \ completedRuns :
       /\ HasMemory(executionMemory, executionId)
       /\ completedRuns' = completedRuns \cup {executionId}
  /\ UNCHANGED << pvars, xvars, ovars, cvars, avars, executionMemory, clock, disk, lastCall,
                  callCount >>

\* the process ends and a new engine is constructed on the same path
Restart ==
  /\ executionMemory' = loadMemory(<< >>, disk)
  /\ lastCall' = [op |-> "constructor"]
  /\ UNCHANGED << pvars, xvars, ovars, cvars, avars, clock, disk, completedRuns, callCount >>

GetSimilarSuccesses ==
  /\ \E currentRequest \in MemoryRequests, agentSpecialty \in {"undefined", "testing"} :
       lastCall' = [op |-> "getSimilarSuccesses", currentRequest |-> currentRequest,
                    agentSpecialty |-> agentSpecialty,
                    value |-> getSimilarSuccesses(executionMemory, currentRequest,
                                                  agentSpecialty)]
  /\ UNCHANGED << pvars, xvars, ovars, cvars, avars, executionMemory, clock, disk, completedRuns,
                  callCount >>

SuggestNextApproach ==
  /\ \E executionId \in ExecutionIds, failedApproaches \in {{}, {"fix implementation"}},
        agentSpecialties \in {{"testing"}, {"general"}} :
       lastCall' = [op |-> "suggestNextApproach", executionId |-> executionId,
                    failedApproaches |-> failedApproaches,
                    agentSpecialties |-> agentSpecialties,
                    value |-> suggestNextApproach(executionMemory, executionId,
                                                  failedApproaches, agentSpecialties)]
  /\ UNCHANGED << pvars, xvars, ovars, cvars, avars, executionMemory, clock, disk, completedRuns,
                  callCount >>

MemoryInit == ProtocolIdle /\ OrchIdle /\ ExtrasIdle /\ ClassifyIdle /\ AgentIdle /\ MemoryIdle

MemoryNext ==
  \/ CreateExecutionMemory
  \/ RecordAttempt
  \/ RecordAppliedChange
  \/ MarkSucceeded
  \/ PruneMemory
  \/ RunCompletes
  \/ Restart

MemorySpec == MemoryInit /\ [][MemoryNext]_vars

\* the ids of the entries of a store that pruneMemory is called on
StoredIds == << "run1", "run2", "run3" >>

\* the stores pruned: up to three entries in the order of the Map, each with a
\* timestamp of its own; a store read from the file holds them in any order
Stores ==
  UNION {{[i \in 1..n |->
             createExecutionMemory(<< >>, StoredIds[i], << "fix", "tests" >>, stamps[i])[1]] :
            stamps \in [1..n -> 1..MaxTime]} : n \in 0..Len(StoredIds)}

PruneInit ==
  /\ ProtocolIdle /\ OrchIdle /\ ExtrasIdle /\ ClassifyIdle /\ AgentIdle
  /\ executionMemory \in Stores
  /\ clock = 1
  /\ disk = NoFile
  /\ completedRuns = {}
  /\ lastCall = NoCall
  /\ callCount = 0

PruneNext == PruneMemory

PruneSpec == PruneInit /\ [][PruneNext]_vars

\* a run with an id of its own starts; callCount numbers the runs
CreateNextRun ==
  /\ callCount < MaxRuns
  /\ executionMemory' =
       createExecutionMemory(executionMemory, callCount + 1, << "fix", "tests" >>, clock)
  /\ lastCall' = [op |-> "createExecutionMemory"]
  /\ callCount' = callCount + 1
  /\ UNCHANGED << pvars, xvars, ovars, cvars, avars, clock, disk, completedRuns >>

\* pruneMemory() with the default keepCount
PruneDefault == PruneCall(DefaultKeepCount) /\ UNCHANGED callCount

CapacityNext ==
  \/ Tick
  \/ CreateNextRun
  \/ PruneDefault

CapacitySpec == MemoryInit /\ [][CapacityNext]_vars

\* the calls that the two queries read, and the queries
RecallNext ==
  \/ CreateExecutionMemory
  \/ RecordAttempt
  \/ MarkSucceeded
  \/ GetSimilarSuccesses
  \/ SuggestNextApproach

RecallSpec == MemoryInit /\ [][RecallNext]_vars

(***************************************************************************)
(* Properties of one run                                                   *)
(***************************************************************************)
Passed(run) == run.kind = "exit" /\ run.code = 0
AllVerificationsFailed == \A i \in 1..Len(verifyRuns) : ~Passed(verifyRuns[i])
AllFixesApplied == \A j \in 1..Len(iterationHistory) : iterationHistory[j].success
LoopOver == pc \in {"exit", "completion", "returned"}

\* C1: when the verification run of iteration i exits with code 0, the Loop
\* ends at iteration i: that run is the last verification run, no fix is
\* invoked in or after iteration i, and the run returns with succeeded = true.
C1_PassEndsLoop ==
  \A i \in 1..Len(verifyRuns) :
    Passed(verifyRuns[i]) =>
      /\ i = Len(verifyRuns)
      /\ currentIteration = i
      /\ \A j \in 1..Len(fixCalls) : fixCalls[j] < i
      /\ LoopOver
      /\ pc \in {"completion", "returned"} => succeeded
      /\ pc = "returned" => completed /\ phase = "completion"

C1_Witness ==
  /\ pc = "returned"
  /\ Len(verifyRuns) = 2
  /\ Passed(verifyRuns[2])
  /\ Len(fixCalls) = 1
  /\ succeeded
  /\ currentIteration < maxIterations

C3_IterationNumbers ==
  /\ Len(iterationHistory) <= maxIterations
  /\ \A j \in 1..Len(iterationHistory) : iterationHistory[j].iteration = j

C3_Witness ==
  /\ pc = "returned"
  /\ Len(iterationHistory) >= 2
  /\ iterationHistory[2].iteration = 2

\* C4: the Loop performs at most maxIterations verification runs and at most
\* maxIterations fix invocations, and a run that was started returns.
C4_Terminates ==
  /\ [](Len(verifyRuns) <= maxIterations /\ Len(fixCalls) <= maxIterations)
  /\ (pc # "idle") ~> (pc = "returned")

C4_Witness ==
  /\ pc = "returned"
  /\ maxIterations >= 2
  /\ Len(verifyRuns) = maxIterations
  /\ Len(fixCalls) = maxIterations - 1

\* C5: within a run the phase only moves from Probe to Loop and from Loop to
\* Completion; it skips none and never goes back.
C5_PhaseOrder ==
  [][phase' # phase =>
       \/ phase = "probe" /\ phase' = "loop"
       \/ phase = "loop" /\ phase' = "completion"]_vars

C5_Witness == phase = "completion" /\ pc = "returned" /\ Len(verifyRuns) > 0

\* C6: once the Loop has started, however it ends, execute returns with
\* phase = Completion and completed = true, and the phase does not change
\* after Completion.
C6_CompletionReached ==
  /\ (phase = "loop") ~> (pc = "returned" /\ phase = "completion" /\ completed)
  /\ [](pc = "returned" /\ failureError = Undefined => phase = "completion" /\ completed)
  /\ [][phase = "completion" => phase' = "completion"]_vars

\* the Loop ended early, on a failed fix
C6_Witness ==
  /\ pc = "returned" /\ phase = "completion" /\ completed
  /\ ~succeeded
  /\ currentIteration < maxIterations
  /\ Len(iterationHistory) > 0

\* C7: when creating the verification script throws, execute returns with
\* completed = true, succeeded = false and failureError set, and nothing of
\* the Loop has happened: no verification run, no fix, currentIteration = 0
\* and an empty iterationHistory.
C7_ProbeFailure ==
  failureError # Undefined =>
    /\ pc = "returned"
    /\ completed /\ ~succeeded
    /\ phase = "probe"
    /\ currentIteration = 0
    /\ iterationHistory = << >>
    /\ verifyRuns = << >>
    /\ fixCalls = << >>

C7_Witness == pc = "returned" /\ failureError = MsgWrite /\ maxIterations > 0

\* C8: when the fix step of an iteration reports failure, the Loop ends at
\* that iteration: no verification run or fix follows, the remaining
\* iterations are not consumed, and the run returns with succeeded = false.
C8_FailedFixEndsLoop ==
  \A j \in 1..Len(iterationHistory) :
    ~iterationHistory[j].success =>
      /\ j = Len(iterationHistory)
      /\ Len(fixCalls) = j
      /\ currentIteration = iterationHistory[j].iteration
      /\ Len(verifyRuns) = currentIteration
      /\ currentIteration < maxIterations
      /\ LoopOver
      /\ pc \in {"completion", "returned"} => ~succeeded
      /\ pc = "returned" => completed /\ phase = "completion"

C8_Witness ==
  /\ pc = "returned"
  /\ Len(iterationHistory) = 2
  /\ iterationHistory[1].success
  /\ ~iterationHistory[2].success
  /\ currentIteration = 2
  /\ maxIterations > 2

\* C9: on return succeeded is true exactly when the last verification run of
\* the run exited with code 0; a verification counts as passed exactly when
\* its process exited with code 0; the fix step never changes succeeded.
C9_VerificationDecides ==
  /\ [](pc = "returned" =>
          (succeeded <=> (Len(verifyRuns) > 0 /\ Passed(verifyRuns[Len(verifyRuns)]))))
  /\ [](Len(verifyRuns) > 0 =>
          (isVerificationPassed(verificationScript) <=> Passed(verifyRuns[Len(verifyRuns)])))
  /\ [][pc = "fix" => succeeded' = succeeded]_vars

\* the last fix was applied, and the run failed all the same
C9_Witness ==
  /\ pc = "returned"
  /\ ~succeeded
  /\ Len(iterationHistory) > 0
  /\ iterationHistory[Len(iterationHistory)].success
  /\ ~Passed(verifyRuns[Len(verifyRuns)])

FailedRun == lastProc.kind # "none" /\ ~Passed(lastProc)

\* C10 as stated: a timeout or a non-zero exit comes back as a failed
\* verification whose diagnostic text is the captured output of the process.
C10_Original ==
  FailedRun =>
    /\ verificationScript.exitCode # 0
    /\ ~isVerificationPassed(verificationScript)
    /\ extractErrorInfo(verificationScript) \in {lastProc.stderr, lastProc.stdout}

\* C10 amended: executeVerificationScript does not throw to the Loop; a
\* timeout or a non-zero exit comes back as a failed verification (exitCode
\* # 0, isVerificationPassed false) that holds the captured stdout as output
\* and whose diagnostic text is the captured stderr or, when stderr is empty,
\* the message of the error; the Loop goes on as after any failed
\* verification, to the fix or to the end on the last iteration.
C10_FailureReturned ==
  FailedRun =>
    /\ verificationScript.exitCode # 0
    /\ ~isVerificationPassed(verificationScript)
    /\ verificationScript.output = lastProc.stdout
    /\ extractErrorInfo(verificationScript) =
         (IF lastProc.stderr # "" THEN lastProc.stderr ELSE execSync(lastProc).message)
    /\ failureError = Undefined
    /\ ~verificationPassed
    /\ pc \in {"fix", "while", "exit", "completion", "returned"}
    /\ pc = "returned" => phase = "completion" /\ ~succeeded

\* a timeout with nothing on stderr, and the Loop went on to the fix
C10_Witness ==
  /\ lastProc.kind = "timeout"
  /\ lastProc.stderr = ""
  /\ pc = "fix"
  /\ extractErrorInfo(verificationScript) = MsgTimeout

\* C11: the iteration budget of a run is the one decided at its start: while
\* the run is in progress the bound the Loop is checked against is
\* config.maxIterations as it was when execute was called, and the Loop does
\* not run more verifications than that.
C11_BudgetDecidedOnce ==
  pc # "idle" =>
    /\ Len(verifyRuns) <= budgetAtStart
    /\ (pc = "while" => maxIterations = budgetAtStart)

\* C16: classifyProblem never returns an empty list of agents: for every
\* request, codebase context and diagnostic text suggestedAgents is non-empty,
\* and it is exactly [general] when no specific agent matches.
C16_NeverEmpty ==
  classified # NoClassification =>
    /\ Len(classified.suggestedAgents) >= 1
    /\ (SpecificAgents(classified.primaryCategory, context) = << >>
          <=> classified.suggestedAgents = << "general" >>)
    /\ (SpecificAgents(classified.primaryCategory, context) # << >>
          => classified.suggestedAgents = SpecificAgents(classified.primaryCategory, context))

\* classifyProblem has returned on a context where no specific agent matches
C16_Witness ==
  /\ classified # NoClassification
  /\ SpecificAgents(classified.primaryCategory, context) = << >>
  /\ classified.suggestedAgents = << "general" >>

\* the keyword groups of primary-category detection from the highest priority
\* to the lowest, each with the category it stands for
PriorityOrder ==
  << [keywords |-> {"data", "query", "sql"},    category |-> "logic"],
     [keywords |-> {"test", "expect"},          category |-> "test"],
     [keywords |-> {"type", "typescript"},      category |-> "type"],
     [keywords |-> {"syntax", "token"},         category |-> "syntax"],
     [keywords |-> {"import", "module"},        category |-> "dependency"],
     [keywords |-> {"build", "compile"},        category |-> "build"],
     [keywords |-> {"lint", "eslint"},          category |-> "lint"],
     [keywords |-> {"performance", "slow"},     category |-> "other"] >>

GroupsMatching(text) ==
  {i \in 1..Len(PriorityOrder) : \E kw \in PriorityOrder[i].keywords : includes(text, kw)}

\* the category of the matching group of highest priority, logic when none matches
ByPriority(text) ==
  LET hits == GroupsMatching(text)
  IN  IF hits = {} THEN "logic"
      ELSE PriorityOrder[CHOOSE i \in hits : \A j \in hits : i <= j].category

AboutFailingTests ==
  /\ includes(toLowerCase(context.request), "test")
  /\ includes(toLowerCase(context.errorOutput), "expect")

ImplementedAgents == {"general", "data_analysis", "web_development", "ui_refactoring"}

\* the categories of a classification
Categories(c) ==
  {c.primaryCategory} \cup {c.secondaryCategories[i] : i \in 1..Len(c.secondaryCategories)}

\* C19: every agent classifyProblem selects as a candidate declares in its
\* capability support for the primary category or one of the secondary
\* categories of the classification.
C19_CandidatesSupportCategory ==
  classified # NoClassification =>
    \A i \in 1..Len(classified.suggestedAgents) :
      classified.suggestedAgents[i] \in ImplementedAgents =>
        supportedErrorCategories(classified.suggestedAgents[i]) \cap Categories(classified) # {}

(***************************************************************************)
(* Properties of one orchestration                                         *)
(***************************************************************************)
Suggested == classification.suggestedAgents

\* the candidates the for loop has gone past that have a registered agent
RegisteredBefore(k) ==
  LET Registered(a) == a \in agents
  IN  SelectSeq(SubSeq(Suggested, 1, k - 1), Registered)

CallAgents == [i \in 1..Len(calls) |-> calls[i].agent]

ReportedSuccess(call) == call.outcome = "returned" /\ call.result.success

RECURSIVE SumIterations(_)
SumIterations(cs) ==
  IF cs = << >> THEN 0
  ELSE (IF Head(cs).outcome = "returned" THEN Head(cs).result.iterations ELSE 0)
       + SumIterations(Tail(cs))

RECURSIVE AllChanges(_)
AllChanges(cs) ==
  IF cs = << >> THEN << >>
  ELSE (IF Head(cs).outcome = "returned" THEN Head(cs).result.changes ELSE << >>)
       \o AllChanges(Tail(cs))

\* C12: execute calls the candidates that have an agent one at a time in the
\* order of classification.suggestedAgents and stops at the first one that
\* reports success: no agent is called after it, the result has succeeded =
\* true, and succeeded is true if and only if some called agent reported
\* success.
C12_FirstSuccessStops ==
  opc # "idle" =>
    /\ CallAgents = RegisteredBefore(idx)
    /\ \A i \in 1..Len(calls) :
         ReportedSuccess(calls[i]) => i = Len(calls) /\ opc \in {"build", "done"}
    /\ ret # NoReturn =>
         (ret.succeeded <=> \E i \in 1..Len(calls) : ReportedSuccess(calls[i]))

\* the first agent failed, the second reported success and the third
\* candidate, which has an agent, was not called
C12_Witness ==
  /\ ret # NoReturn
  /\ ret.succeeded
  /\ Len(Suggested) = 3
  /\ Suggested[3] \in agents
  /\ Len(calls) = 2
  /\ ~ReportedSuccess(calls[1])
  /\ ReportedSuccess(calls[2])

\* C13: the result of execute aggregates all the agents that ran:
\* totalIterations is the sum of the iterations they reported, and changes and
\* modifiedFiles hold the changes and files reported by every one of them,
\* failed ones included.
C13_Aggregates ==
  ret # NoReturn =>
    /\ ret.totalIterations = SumIterations(calls)
    /\ ret.changes = AllChanges(calls)
    /\ ret.modifiedFiles = AllChanges(calls)

\* C14: an exception thrown by an agent's execute is caught: it is recorded
\* in executionPath as an error of that agent, the agent does not count as
\* used, the loop goes on with the next candidate and execute does not throw.
C14_ThrowCaught ==
  /\ opc # "thrown"
  /\ \A i \in 1..Len(calls) :
       calls[i].outcome = "threw" =>
         /\ Listed(executionPath, << calls[i].agent, "error" >>)
         /\ ~Listed(executionPath, << calls[i].agent, "end" >>)
         /\ ~Listed(agentsUsed, calls[i].agent)
         /\ \E k \in 1..(idx - 1) : Suggested[k] = calls[i].agent

\* the first agent threw, the next candidate was called and execute returned
C14_Witness ==
  /\ ret # NoReturn
  /\ Len(calls) = 2
  /\ calls[1].outcome = "threw"
  /\ ReportedSuccess(calls[2])
  /\ ret.succeeded

\* C15: a candidate with no registered agent is skipped: nothing is executed,
\* agentsUsed, totalIterations and executionPath stay as they are and the loop
\* is at the next candidate.
C15_UnregisteredSkipped ==
  [][(opc = "for" /\ idx <= Len(Suggested) /\ Suggested[idx] \notin agents)
       => /\ idx' = idx + 1
          /\ opc' = "for"
          /\ UNCHANGED << agentsUsed, totalIterations, executionPath, calls, result >>]_vars

\* a candidate without an agent was skipped and the next one was executed
C15_Witness ==
  /\ ret # NoReturn
  /\ Len(Suggested) >= 2
  /\ Suggested[1] \notin agents
  /\ ret.agentsUsed = << Suggested[2] >>
  /\ ret.executionPath = << << Suggested[2], "start" >>, << Suggested[2], "end" >> >>

\* C17: on a classification miss execute degrades to the general agent: the
\* general agent is executed, rather than execute ending with no agent
\* attempted.
C17_DegradesToGeneral ==
  (ret # NoReturn /\ Suggested = << "general" >>)
    => Listed(ret.executionPath, << "general", "start" >>)

(***************************************************************************)
(* Properties of one execute of an agent                                   *)
(***************************************************************************)
\* C20: on SpecialistAgent.execute applyFix is called at most maxIterations
\* times, and the iterations of the returned result is the number of passes
\* of the loop that were made and is at most maxIterations, whether the agent
\* succeeds, runs out of budget or fails.
C20_WithinBudget ==
  /\ Len(applyCalls) <= agentMaxIterations
  /\ agentResult # NoReturn =>
       /\ agentResult.iterations = bodies
       /\ agentResult.iterations <= agentMaxIterations

\* C21: SpecialistAgent.execute never raises across its boundary: when
\* analyzeContext proposes no suggestion it returns success = false with
\* iterations = 0 and has applied nothing; when analyzeContext,
\* selectBestSuggestion or applyFix throws it returns success = false with the
\* message of the error in the result.
C21_NeverRaises ==
  /\ apc # "thrown"
  /\ (apc = "done" /\ agentThrew = "none" /\ agentSuggestions = << >>)
       => /\ agentResult = [returned |-> TRUE, success |-> FALSE, iterations |-> 0,
                            changes |-> << >>, error |-> "none"]
          /\ applyCalls = << >>
  /\ agentThrew # "none"
       => /\ apc = "done"
          /\ agentResult # NoReturn
          /\ agentResult.success = FALSE
          /\ agentResult.error = "error.message"

\* applyFix threw in the second pass of the loop and execute returned
C21_Witness ==
  /\ agentThrew = "applyFix"
  /\ bodies = 2
  /\ agentResult # NoReturn
  /\ agentResult.error = "error.message"

\* C30: within one execute each pass of the loop selects a suggestion that no
\* earlier pass used: no suggestion is applied more than once, and the loop
\* ends when all suggestions are used.
C30_NoSuggestionReused ==
  /\ \A i, j \in 1..Len(applyCalls) : applyCalls[i].id = applyCalls[j].id => i = j
  /\ Len(applyCalls) <= Len(agentSuggestions)

\* C29: in the Loop every failed verification is followed by at most one fix,
\* the fix of its own iteration, and every fix that was applied successfully
\* is followed by a verification run before the Loop ends: no applied fix is
\* left unverified.
C29_FixThenVerify ==
  /\ Len(fixCalls) <= Len(verifyRuns)
  /\ \A j \in 1..Len(fixCalls) : fixCalls[j] = j /\ ~Passed(verifyRuns[j])
  /\ LoopOver =>
       \A j \in 1..Len(iterationHistory) :
         iterationHistory[j].success => Len(verifyRuns) >= j + 1

\* two fixes were applied and the verification after the second one failed
\* too: the run ended on that verification, not on a fix
C29_Witness ==
  /\ pc = "returned"
  /\ Len(iterationHistory) = 2
  /\ iterationHistory[1].success /\ iterationHistory[2].success
  /\ Len(verifyRuns) = 3
  /\ ~Passed(verifyRuns[3])


(***************************************************************************)
(* Properties of the execution memory                                      *)
(***************************************************************************)

\* C28: calculateSimilarity(A, B) equals calculateSimilarity(B, A) for any two
\* token lists, lists with duplicates and empty lists included.
C28_Symmetric ==
  lastCall.op = "calculateSimilarity"
    => lastCall.value = calculateSimilarity(lastCall.tokens2, lastCall.tokens1)

\* a list with a duplicate against a list of two tokens: 1 / 2
C28_Witness ==
  /\ lastCall.op = "calculateSimilarity"
  /\ lastCall.tokens1 = << "fix", "fix" >>
  /\ lastCall.tokens2 = << "fix", "tests" >>
  /\ lastCall.value = [num |-> 1, den |-> 2]

\* C22: getSimilarSuccesses called with a request identical to the
\* originalRequest of a stored successful entry returns that entry, for every
\* request text.
C22_IdenticalRequestFound ==
  (lastCall.op = "getSimilarSuccesses" /\ lastCall.agentSpecialty = "undefined")
    => \A i \in 1..Len(executionMemory) :
         (executionMemory[i].succeeded
            /\ executionMemory[i].originalRequest = lastCall.currentRequest)
           => Listed(lastCall.value, executionMemory[i])

\* the store after createExecutionMemory(id1, r), one recordAttempt(id1, ...)
\* with result 'success', markSucceeded(id1, n) and createExecutionMemory(id2, r)
SameRequestTwice ==
  /\ Len(executionMemory) = 2
  /\ executionMemory[1].succeeded
  /\ Len(executionMemory[1].attemptedSolutions) = 1
  /\ executionMemory[1].attemptedSolutions[1].result = "success"
  /\ executionMemory[2].originalRequest = executionMemory[1].originalRequest
  /\ executionMemory[2].attemptedSolutions = << >>
  /\ ~executionMemory[2].succeeded

\* C25: same request submitted twice: after the first run recorded approach X
\* of strategy s as a success and was marked succeeded,
\* suggestNextApproach(id2, [], [s]) for the second run returns X.
C25_SecondRunGetsApproach ==
  (/\ SameRequestTwice
   /\ lastCall.op = "suggestNextApproach"
   /\ lastCall.executionId = executionMemory[2].executionId
   /\ lastCall.failedApproaches = {}
   /\ lastCall.agentSpecialties = {executionMemory[1].attemptedSolutions[1].agentSpecialty})
    => lastCall.value = executionMemory[1].attemptedSolutions[1].approach

Prefix(a, b) == Len(a) <= Len(b) /\ SubSeq(b, 1, Len(a)) = a

\* what append-only keeps of every entry across one step
KeptAcrossStep ==
  \A i \in 1..Len(executionMemory) :
    LET before == executionMemory[i]
    IN  /\ HasMemory(executionMemory', before.executionId)
        /\ LET after == GetMemory(executionMemory', before.executionId)
           IN  /\ Prefix(before.attemptedSolutions, after.attemptedSolutions)
               /\ Prefix(before.appliedChanges, after.appliedChanges)
               /\ before.succeeded => after.succeeded

\* C26: createExecutionMemory, recordAttempt, recordAppliedChange and
\* markSucceeded are append-only: the attempts and applied changes recorded on
\* an entry are never removed or rewritten and succeeded never goes back to false.
C26_AppendOnly ==
  [][lastCall'.op \in {"createExecutionMemory", "recordAttempt", "recordAppliedChange",
                       "markSucceeded"}
       => KeptAcrossStep]_vars

\* C27: memory entries survive a restart: a new engine constructed on the same
\* persistence path holds every entry of every completed run, successful or
\* not, with the same attempts, applied changes, succeeded flag and
\* totalIterations.
C27_SurvivesRestart ==
  [][lastCall'.op = "constructor"
       => \A executionId \in completedRuns :
            HasMemory(executionMemory, executionId)
              => /\ HasMemory(executionMemory', executionId)
                 /\ GetMemory(executionMemory', executionId)
                      = GetMemory(executionMemory, executionId)]_vars

Smaller(a, b) == IF a < b THEN a ELSE b

\* C23: pruneMemory(N) leaves exactly min(N, number of entries before the call)
\* entries, each of them an entry of the store before the call, and every kept
\* entry has a timestamp greater than or equal to that of every evicted entry.
C23_PruneKeepsNewest ==
  [][(lastCall'.op = "pruneMemory" /\ callCount' = callCount + 1)
       => /\ Len(executionMemory') = Smaller(lastCall'.keepCount, Len(executionMemory))
          /\ \A i \in 1..Len(executionMemory') : Listed(executionMemory, executionMemory'[i])
          /\ \A i \in 1..Len(executionMemory) :
               ~Listed(executionMemory', executionMemory[i])
                 => \A j \in 1..Len(executionMemory') :
                      executionMemory'[j].timestamp >= executionMemory[i].timestamp]_vars

\* pruneMemory(2) on three entries of which the last is the newest: it is kept,
\* and the second is evicted
C23_Witness ==
  /\ lastCall.op = "pruneMemory" /\ lastCall.keepCount = 2
  /\ callCount = 1
  /\ Len(executionMemory) = 2
  /\ executionMemory[1].executionId = "run3" /\ executionMemory[1].timestamp = 2
  /\ executionMemory[2].executionId = "run1" /\ executionMemory[2].timestamp = 1

\* C24: the capacity cap is enforced eagerly: after any sequence of
\* createExecutionMemory, recordAttempt, recordAppliedChange and markSucceeded
\* calls the store never holds more than the cap (default 100) entries.
C24_CapEnforced == Len(executionMemory) <= DefaultKeepCount

\* applyFix returned true for a suggestion of a confidence above 0.8
AppliedAboveThreshold ==
  \E i \in 1..Len(applyCalls) :
    /\ i <= agentMaxIterations
    /\ applyCalls[i].applied = "true"
    /\ applyCalls[i].confidence > 80

\* C31: SpecialistAgent.execute reports success if and only if, within its
\* budget, applyFix returned true for a suggestion whose confidence is strictly
\* above 0.8; a confidence of 0.8 or lower, or a fix that was not applied,
\* never yields success.
C31_SuccessIffApplied ==
  /\ agentSucceeded <=> AppliedAboveThreshold
  /\ agentResult # NoReturn => (agentResult.success <=> AppliedAboveThreshold)

\* a suggestion of confidence 0.8 was applied in every pass and execute
\* returned without success
C31_Witness ==
  /\ agentResult # NoReturn
  /\ ~agentResult.success
  /\ Len(applyCalls) = 2
  /\ \A i \in 1..2 : applyCalls[i].applied = "true" /\ applyCalls[i].confidence = 80

\* the suggestion is one of the highest confidence among the proposed ones
MaximalConfidence(suggestion) ==
  \A i \in 1..Len(agentSuggestions) : agentSuggestions[i].confidence <= suggestion.confidence

C33_OrderedByConfidence ==
  classification # NoClassification
    => /\ \A i, j \in 1..Len(Suggested) :
            (i < j /\ Suggested[i] \in agents /\ Suggested[j] \in agents)
              => capabilityConfidence[Suggested[i]] >= capabilityConfidence[Suggested[j]]
       /\ \A i \in 1..Len(Suggested) : Suggested[i] = "web_development" => i = 1

\* C34: the classification confidence is within [0.3, 0.95] for every
\* diagnostic length and every number of candidates, does not decrease when
\* the diagnostic gets longer and does not increase when the number of
\* candidates grows.
C34_ConfidenceClamped ==
  scored.scored
    => /\ scored.value >= 300000 /\ scored.value <= 950000
       /\ \A longer \in ErrorLengths :
            longer >= scored.errorLength
              => calculateClassificationConfidence(longer, scored.candidates) >= scored.value
       /\ \A more \in 1..MaxCandidates :
            more >= scored.candidates
              => calculateClassificationConfidence(scored.errorLength, more) <= scored.value

\* a diagnostic of 600 characters and two candidates: 0.6 * 0.9 = 0.54
C34_Witness ==
  /\ scored.scored
  /\ scored.errorLength = 600
  /\ scored.candidates = 2
  /\ scored.value = 540000

\* the tokens of a request: its words in lower case, those of one or two
\* characters left out
TokensOf(text) ==
  {LowerWord(text[i]) : i \in {k \in 1..Len(text) : WordLength(LowerWord(text[k])) > 2}}

\* |A \cap B| / |A \cup B| > 0.5
JaccardAboveHalf(A, B) == 2 * Cardinality(A \cap B) > Cardinality(A \cup B)

\* what getSimilarSuccesses is to return of the store for the last query
Wanted(memory) ==
  /\ memory.succeeded
  /\ JaccardAboveHalf(TokensOf(lastCall.currentRequest), TokensOf(memory.originalRequest))
  /\ lastCall.agentSpecialty # "undefined"
       => \E k \in 1..Len(memory.attemptedSolutions) :
            memory.attemptedSolutions[k].agentSpecialty = lastCall.agentSpecialty

\* C35: getSimilarSuccesses returns exactly the stored entries that are marked
\* succeeded, whose Jaccard similarity to the request is strictly greater than
\* 0.5 and, when a strategy is given, that have an attempt by that strategy,
\* each once, sorted by totalIterations descending.
C35_ExactlyTheSimilarSuccesses ==
  lastCall.op = "getSimilarSuccesses"
    => /\ \A i \in 1..Len(executionMemory) :
            Listed(lastCall.value, executionMemory[i]) <=> Wanted(executionMemory[i])
       /\ \A i \in 1..Len(lastCall.value) : Listed(executionMemory, lastCall.value[i])
       /\ \A i, j \in 1..Len(lastCall.value) : lastCall.value[i] = lastCall.value[j] => i = j
       /\ \A i, j \in 1..Len(lastCall.value) :
            i < j => lastCall.value[i].totalIterations >= lastCall.value[j].totalIterations

\* two similar successes, the second of the Map with more iterations: it is
\* returned first
C35_Witness ==
  /\ lastCall.op = "getSimilarSuccesses"
  /\ Len(lastCall.value) = 2
  /\ lastCall.value[1] = executionMemory[2]
  /\ lastCall.value[2] = executionMemory[1]
  /\ lastCall.value[1].totalIterations = 2
  /\ lastCall.value[2].totalIterations = 1
  /\ lastCall.value[1].originalRequest # lastCall.value[2].originalRequest

\* the similar successes of the entry the last suggestNextApproach was asked for
SuccessesForLastCall ==
  getSimilarSuccesses(executionMemory,
                      GetMemory(executionMemory, lastCall.executionId).originalRequest,
                      "undefined")

\* attempt k of entry i of the similar successes may be suggested
Suggestable(i, k) ==
  LET solution == SuccessesForLastCall[i].attemptedSolutions[k]
  IN  /\ solution.result = "success"
      /\ solution.approach \notin lastCall.failedApproaches
      /\ solution.agentSpecialty \in lastCall.agentSpecialties

AttemptPlaces ==
  {<< i, k >> \in (1..Len(SuccessesForLastCall)) \X (1..MaxCalls) :
     k <= Len(SuccessesForLastCall[i].attemptedSolutions)}

Earlier(p, q) == p[1] < q[1] \/ (p[1] = q[1] /\ p[2] < q[2])

\* C36: suggestNextApproach returns the approach of the first attempt, in the
\* order of getSimilarSuccesses and then of recording, whose result is success,
\* whose approach is not in failedApproaches and whose strategy is allowed; it
\* returns none when there is no such attempt or the id is unknown, and it
\* changes no entry.
C36_FirstSuggestable ==
  /\ [](lastCall.op = "suggestNextApproach"
          => IF ~HasMemory(executionMemory, lastCall.executionId)
               THEN lastCall.value = "null"
               ELSE LET places == {p \in AttemptPlaces : Suggestable(p[1], p[2])}
                    IN  IF places = {} THEN lastCall.value = "null"
                        ELSE \E p \in places :
                               /\ \A q \in places : ~Earlier(q, p)
                               /\ lastCall.value
                                    = SuccessesForLastCall[p[1]].attemptedSolutions[p[2]].approach)
  /\ [][(lastCall'.op = "suggestNextApproach" /\ lastCall' # lastCall)
          => (executionMemory' = executionMemory /\ disk' = disk)]_vars

\* the first attempt of the entry is of a strategy that is not allowed: the
\* approach of the second is returned
C36_Witness ==
  /\ lastCall.op = "suggestNextApproach"
  /\ lastCall.executionId = "run1"
  /\ lastCall.agentSpecialties = {"general"}
  /\ lastCall.failedApproaches = {}
  /\ Len(executionMemory) = 1
  /\ executionMemory[1].succeeded
  /\ Len(executionMemory[1].attemptedSolutions) = 2
  /\ executionMemory[1].attemptedSolutions[1].agentSpecialty = "testing"
  /\ executionMemory[1].attemptedSolutions[1].result = "success"
  /\ lastCall.value = "rewrite test"

(***************************************************************************)
(* Properties of overlapping orchestrations                                *)
(***************************************************************************)

\* C37: when two execute calls on one MultiAgentOrchestrator overlap, the
\* executionPath and the changes of each returned result hold only the events
\* and changes of its own call.
C37_NoInterference ==
  \A c \in Calls :
    overlapCalls[c].pc = "done"
      => /\ \A i \in 1..Len(pathArrays[overlapCalls[c].executionPath]) :
              pathArrays[overlapCalls[c].executionPath][i].call = c
         /\ \A i \in 1..Len(overlapCalls[c].changes) : overlapCalls[c].changes[i] = c

(***************************************************************************)
(* Properties of a second run on the same protocol instance                *)
(***************************************************************************)

\* C38: an execute call on an instance that already ran starts with
\* currentIteration = 0, an empty iterationHistory, completed = false and
\* succeeded = false, and so with the full iteration budget.
C38_SecondRunStartsFresh ==
  [][(pc = "returned" /\ pc' = "probe")
       => /\ currentIteration' = 0
          /\ iterationHistory' = << >>
          /\ completed' = FALSE
          /\ succeeded' = FALSE]_vars

(***************************************************************************)
(* Properties of the session trace                                         *)
(***************************************************************************)

NamesOf(steps) == [i \in 1..Len(steps) |-> steps[i].step]

InSeq(x, list) == \E i \in 1..Len(list) : list[i] = x

FixFor(name) ==
  CASE name = "A" -> FixBackend
    [] name = "B" -> FixNetwork
    [] name = "C" -> FixFrontend

\* C39: executeTrace runs the steps in the order A, B, C; the result's
\* success is true exactly when the three steps of the call are verified, and
\* nextSteps has a fix recommendation for exactly the steps that are not.
C39_TraceResult ==
  /\ NamesOf(traceSteps) \in {<< >>, << "A" >>, << "A", "B" >>, << "A", "B", "C" >>}
  /\ tracePc = "returned"
       => /\ testResults.success = (\A i \in 1..3 : traceSteps[i].verified)
          /\ \A i \in 1..3 :
               InSeq(FixFor(traceSteps[i].step), testResults.nextSteps)
                 <=> ~traceSteps[i].verified

\* the first call on an instance does what C39 says
FirstTraceResult == traceCalls <= 1 => C39_TraceResult

\* C40: after every executeTrace call, the second and later ones on the same
\* instance included, the result holds exactly three step results, one each
\* for A, B and C, and its nextSteps are derived from the step results of
\* that call.
C40_ThreeStepsOfThisCall ==
  tracePc = "returned"
    => /\ NamesOf(testResults.steps) = << "A", "B", "C" >>
       /\ testResults.nextSteps =
            generateRecommendations([success |-> testResults.success, steps |-> traceSteps])
====
